---- MODULE Spec2Model ----
(***************************************************************************)
(* Model of the OptiSigns help-center synchronisation pipeline:            *)
(*   scraper.OptiSignsScraper.get_articles   (harvest)                     *)
(*   orchestrator.ScraperOrchestrator.sync   (stage, hash, diff, dispatch, *)
(*                                            commit)                      *)
(*   diffcheck.get_dict_differences, diffcheck.RemoteContentLockStore      *)
(*   uploader.FileUploader.upload_files_batch / update_files_batch         *)
(* One sync() is cut at its await points; every step between two awaits is *)
(* one action.                                                             *)
(***************************************************************************)
EXTENDS Integers, Sequences, FiniteSets, TLC

(* ------------------------------------------------------------------ *)
(* Bounds and domains                                                  *)
(* ------------------------------------------------------------------ *)

\* number of sync() invocations explored
MaxTicks == 2

\* number of edits the remote knowledge base undergoes
MaxEdits == 3

\* article ids known to the remote knowledge base
ArticleIds == {1, 2}

\* number of keys the two maps handed to the differ are drawn over
MaxDiffKeys == 4

\* number of articles the dispatch phases are exercised with
MaxBatch == 3
\* at most this many categories on the remote of a task-by-task harvest
MaxCats == 3
\* at most this many pages in what the remote serves for one listing
MaxPages == 3
\* number of load_config() calls explored
MaxLoads == 3

\* category ids; category c has the single section c
CategoryIds == {1, 2}

\* raw (HTML) bodies an article can have on the remote
HtmlBodies == {"", "<p>a</p>", "<p>b</p>"}

Absent == "absent"
None == "None"

(* ------------------------------------------------------------------ *)
(* Generic helpers                                                     *)
(* ------------------------------------------------------------------ *)

EmptyMap == [k \in {} |-> None]

Min(S) == CHOOSE x \in S : \A y \in S : x <= y

Max(S) == CHOOSE x \in S : \A y \in S : y <= x

RECURSIVE SeqOfSet(_)
\* the elements of a finite set of integers in ascending order
SeqOfSet(S) == IF S = {} THEN <<>> ELSE <<Min(S)>> \o SeqOfSet(S \ {Min(S)})

RECURSIVE Flatten(_)
Flatten(ss) == IF ss = <<>> THEN <<>> ELSE Head(ss) \o Flatten(Tail(ss))

Range(s) == {s[i] : i \in DOMAIN s}

Reverse(s) == [n \in DOMAIN s |-> s[Len(s) + 1 - n]]

\* the elements of s at the positions idxs, in order
Pick(s, idxs) == [k \in 1..Cardinality(idxs) |-> s[SeqOfSet(idxs)[k]]]

\* dict.update: entries of g override entries of f
Merge(f, g) ==
    [k \in (DOMAIN f) \cup (DOMAIN g) |-> IF k \in DOMAIN g THEN g[k] ELSE f[k]]

(* ------------------------------------------------------------------ *)
(* Remote knowledge base layout                                        *)
(* ------------------------------------------------------------------ *)

\* sections listed for a category
SectionsOf(c) == <<c>>

\* the section an article lives in
SectionOfArticle(i) == ((i - 1) % Cardinality(CategoryIds)) + 1

ArticleName(i) == "Article " \o ToString(i)

(* ------------------------------------------------------------------ *)
(* Pure functions of the program                                       *)
(* ------------------------------------------------------------------ *)

\* markdownify: HTML text to Markdown text
md(html) ==
    CASE html = "<p>a</p>" -> "a"
      [] html = "<p>b</p>" -> "b"
      [] OTHER -> html

\* OptiSignsScraper._convert_body_to_markdown, for one article
convert_body_to_markdown(article) ==
    IF article.body # "" THEN [article EXCEPT !.body = md(article.body)] ELSE article

\* utils.path.slugify followed by the path join of _save_articles
slugify(name) ==
    CASE name \in {"Article 1", "Article-1"} -> "article-1"
      [] name = "Article 2" -> "article-2"
      [] name = "Article 3" -> "article-3"
      [] OTHER -> "article"

StagedPath(name) == "./.tmp/" \o slugify(name) \o ".md"

\* hashlib.sha256(body.encode("utf-8")).hexdigest(), kept symbolic and injective
sha256(body) == "sha256(" \o body \o ")"

(* ------------------------------------------------------------------ *)
(* Lock store: one JSON value under the key "lock:all"                 *)
(* ------------------------------------------------------------------ *)

\* JSON values as stored by redis
JStr(s) == [t |-> "str", v |-> s]
JNum(s) == [t |-> "num", v |-> s]

\* nothing stored under the key
NoLock == [kind |-> "none"]

\* a JSON object stored under the key
JDict(d) == [kind |-> "dict", data |-> d]

\* int(key) succeeds exactly on the decimal numerals; a numeral may carry a
\* leading zero, so two strings can be the same integer
IntStrings == {ToString(i) : i \in 0..9} \cup {"0" \o ToString(i) : i \in 0..9}
IntOf == [s \in IntStrings |-> CHOOSE i \in 0..9 : s \in {ToString(i), "0" \o ToString(i)}]
int(s) == IntOf[s]

\* json serialisation of a ContentLock: keys become strings
RemoteContentLockStore_update(content_lock) ==
    JDict([k \in {ToString(i) : i \in DOMAIN content_lock} |-> JStr(content_lock[int(k)])])

\* a JSON array stored under the key
JList == [kind |-> "list"]

\* a JSON string stored under the key: the text of the JSON value `inner`,
\* or a text that is not JSON
NotJson == [kind |-> "invalid"]
JText(inner) == [kind |-> "text", json |-> inner]

\* data = json.loads(data) when the stored value is a string
Decoded(raw) == IF raw.kind = "text" THEN raw.json ELSE raw

\* variant: the entries that cannot be converted are left out
RemoteContentLockStore_get_skip_invalid(raw) ==
    IF raw.kind = "none" THEN [ok |-> TRUE, value |-> EmptyMap]
    ELSE IF Decoded(raw).kind # "dict"
         THEN [ok |-> FALSE, error |-> "TypeError: not a dictionary"]
    ELSE LET data == Decoded(raw).data
             valid == {k \in DOMAIN data : k \in IntStrings /\ data[k].t = "str"}
         IN  [ok |-> TRUE,
              value |-> [i \in {int(k) : k \in valid} |->
                            data[CHOOSE k \in valid : int(k) = i].v]]

\* RemoteContentLockStore.get: the ContentLock, or TypeError; when several
\* stored keys are the same integer, content_lock[file_id] = value keeps the
\* value of one of them, the one the stored object yields last
RemoteContentLockStore_get(raw) ==
    IF raw.kind = "none" THEN [ok |-> TRUE, value |-> EmptyMap]
    ELSE IF Decoded(raw).kind = "invalid"
         THEN [ok |-> FALSE, error |-> "TypeError: string but not valid JSON"]
    ELSE IF Decoded(raw).kind # "dict"
         THEN [ok |-> FALSE, error |-> "TypeError: not a dictionary"]
    ELSE LET data == Decoded(raw).data
         IN  IF \E k \in DOMAIN data : k \notin IntStrings
             THEN [ok |-> FALSE, error |-> "TypeError: key is not a valid integer"]
             ELSE IF \E k \in DOMAIN data : data[k].t # "str"
             THEN [ok |-> FALSE, error |-> "TypeError: value is not a string"]
             ELSE [ok |-> TRUE,
                   value |-> [i \in {int(k) : k \in DOMAIN data} |->
                                 data[CHOOSE k \in DOMAIN data : int(k) = i].v]]

(* ------------------------------------------------------------------ *)
(* Differ                                                              *)
(* ------------------------------------------------------------------ *)

\* variant: every common key counts as updated (the value comparison is lost)
get_dict_differences_all_common(dict1, dict2) ==
    LET keys1 == DOMAIN dict1
        keys2 == DOMAIN dict2
    IN  [new_keys |-> keys2 \ keys1,
         deleted_keys |-> keys1 \ keys2,
         updated_keys |-> keys1 \cap keys2]

\* variant: the two key differences are taken the wrong way round
get_dict_differences_swapped(dict1, dict2) ==
    LET keys1 == DOMAIN dict1
        keys2 == DOMAIN dict2
        common_keys == keys1 \cap keys2
    IN  [new_keys |-> keys1 \ keys2,
         deleted_keys |-> keys2 \ keys1,
         updated_keys |-> {key \in common_keys : dict1[key] # dict2[key]}]

\* variant: every key of the second map counts as new
get_dict_differences_new_all(dict1, dict2) ==
    LET keys1 == DOMAIN dict1
        keys2 == DOMAIN dict2
        common_keys == keys1 \cap keys2
    IN  [new_keys |-> keys2,
         deleted_keys |-> keys1 \ keys2,
         updated_keys |-> {key \in common_keys : dict1[key] # dict2[key]}]

get_dict_differences(dict1, dict2) ==
    LET keys1 == DOMAIN dict1
        keys2 == DOMAIN dict2
        common_keys == keys1 \cap keys2
    IN  [new_keys |-> keys2 \ keys1,
         deleted_keys |-> keys1 \ keys2,
         updated_keys |-> {key \in common_keys : dict1[key] # dict2[key]}]

NoDifferences == [new_keys |-> {}, deleted_keys |-> {}, updated_keys |-> {}]

(* ------------------------------------------------------------------ *)
(* Hasher                                                              *)
(* ------------------------------------------------------------------ *)

\* variant: the empty-body check is missing
generate_file_hashes_nocheck(articles) ==
    [ok |-> TRUE,
     value |-> [i \in {articles[n].id : n \in DOMAIN articles} |->
                  sha256(articles[Max({n \in DOMAIN articles : articles[n].id = i})].body)]]

\* ScraperOrchestrator._generate_file_hashes: the ContentLock, or ValueError
generate_file_hashes(articles) ==
    IF \E n \in DOMAIN articles : articles[n].body = ""
    THEN [ok |-> FALSE, error |-> "ValueError: article has no body content"]
    ELSE [ok |-> TRUE,
          value |-> [i \in {articles[n].id : n \in DOMAIN articles} |->
                       sha256(articles[Max({n \in DOMAIN articles : articles[n].id = i})].body)]]

(* ------------------------------------------------------------------ *)
(* Uploader                                                            *)
(* ------------------------------------------------------------------ *)

FileId(n) == "file-" \o ToString(n)

UploadOutcomes == {"ok", "push_fail", "attach_fail"}
DeleteOutcomes == {"ok", "detach_fail", "delete_fail"}

\* upload_file_async pushed the bytes of path number n (files.create returned)
Pushed(paths, outcomes, files, n) ==
    paths[n] \in DOMAIN files /\ outcomes[n] # "push_fail"

\* the file id files.create hands out for path number n
PushedId(paths, outcomes, files, next, n) ==
    FileId(next + Cardinality({m \in 1..(n - 1) : Pushed(paths, outcomes, files, m)}))

\* the entry upload_files_batch appends to failed_uploads for a path
FailedEntry(path) == path \o " (Upload failed)"

\* variant: the batch stops at the first file that fails; the files after it
\* are neither uploaded nor reported
upload_files_batch_abort(paths, outcomes, files, next) ==
    LET bad == {n \in DOMAIN paths : ~(Pushed(paths, outcomes, files, n) /\ outcomes[n] = "ok")}
        N == IF bad = {} THEN DOMAIN paths ELSE 1..Min(bad)
        pushed == {n \in N : Pushed(paths, outcomes, files, n)}
        good == {n \in pushed : outcomes[n] = "ok"}
        idOf(n) == PushedId(paths, outcomes, files, next, n)
    IN  [successful_uploads |->
             [p \in {paths[n] : n \in good} |->
                 idOf(CHOOSE n \in good : paths[n] = p /\ \A m \in good : paths[m] = p => m <= n)],
         failed_uploads |-> [k \in 1..Cardinality(N \ good) |-> FailedEntry(Pick(paths, N \ good)[k])],
         created |-> [f \in {idOf(n) : n \in pushed} |->
                         files[paths[CHOOSE n \in pushed : idOf(n) = f]]],
         attached |-> {idOf(n) : n \in good},
         remote_calls |-> {n \in N : paths[n] \in DOMAIN files},
         refresh |-> good # {},
         next |-> next + Cardinality(pushed)]

\* variant: the assistant is refreshed after every batch
upload_files_batch_refresh_always(paths, outcomes, files, next) ==
    LET N == DOMAIN paths
        pushed == {n \in N : Pushed(paths, outcomes, files, n)}
        good == {n \in pushed : outcomes[n] = "ok"}
        idOf(n) == PushedId(paths, outcomes, files, next, n)
    IN  [successful_uploads |->
             [p \in {paths[n] : n \in good} |->
                 idOf(CHOOSE n \in good : paths[n] = p /\ \A m \in good : paths[m] = p => m <= n)],
         failed_uploads |-> [k \in 1..Cardinality(N \ good) |-> FailedEntry(Pick(paths, N \ good)[k])],
         created |-> [f \in {idOf(n) : n \in pushed} |->
                         files[paths[CHOOSE n \in pushed : idOf(n) = f]]],
         attached |-> {idOf(n) : n \in good},
         remote_calls |-> {n \in N : paths[n] \in DOMAIN files},
         refresh |-> TRUE,
         next |-> next + Cardinality(pushed)]

\* FileUploader.upload_files_batch: the BatchUploadResult and the effect on
\* the artifact store, for given per-file outcomes of the two remote calls;
\* refresh tells whether _update_assitant_vector_store is called at the end
upload_files_batch(paths, outcomes, files, next) ==
    LET N == DOMAIN paths
        pushed == {n \in N : Pushed(paths, outcomes, files, n)}
        good == {n \in pushed : outcomes[n] = "ok"}
        idOf(n) == PushedId(paths, outcomes, files, next, n)
    IN  [successful_uploads |->
             [p \in {paths[n] : n \in good} |->
                 idOf(CHOOSE n \in good : paths[n] = p /\ \A m \in good : paths[m] = p => m <= n)],
         failed_uploads |-> [k \in 1..Cardinality(N \ good) |-> FailedEntry(Pick(paths, N \ good)[k])],
         created |-> [f \in {idOf(n) : n \in pushed} |->
                         files[paths[CHOOSE n \in pushed : idOf(n) = f]]],
         attached |-> {idOf(n) : n \in good},
         remote_calls |-> {n \in N : paths[n] \in DOMAIN files},
         refresh |-> good # {},
         next |-> next + Cardinality(pushed)]

NoResult == [successful_uploads |-> EmptyMap, failed_uploads |-> <<>>]

\* FileUploader._delete_file_async for each old id: detach from the vector
\* store, then delete the bytes; any exception is logged and swallowed
delete_files(ids, outcomes, files, attached) ==
    LET N == DOMAIN ids
        detached == {ids[n] : n \in {m \in N : outcomes[m] # "detach_fail"}}
        deleted == {ids[n] : n \in {m \in N : outcomes[m] = "ok"}}
    IN  [files |-> [f \in (DOMAIN files) \ deleted |-> files[f]],
         attached |-> attached \ detached]

(* ------------------------------------------------------------------ *)
(* Artifact index: the redis hash "article_openai_id"                  *)
(* ------------------------------------------------------------------ *)

\* variant: the hash is replaced by the new mapping instead of merged with it
save_article_openai_file_ids_replace(idx, articles, successful_uploads) ==
    IF DOMAIN successful_uploads = {} THEN idx
    ELSE LET hit == {n \in DOMAIN articles : articles[n].file_path \in DOMAIN successful_uploads}
         IN  [k \in {ToString(articles[n].id) : n \in hit} |->
                 successful_uploads[articles[Max({n \in hit : articles[n].id = int(k)})].file_path]]

\* variant: an id the hash already holds keeps its old file id
save_article_openai_file_ids_keep_old(idx, articles, successful_uploads) ==
    IF DOMAIN successful_uploads = {} THEN idx
    ELSE LET hit == {n \in DOMAIN articles : articles[n].file_path \in DOMAIN successful_uploads}
             article_openai_id_map ==
                 [i \in {articles[n].id : n \in hit} |->
                     successful_uploads[articles[Max({n \in hit : articles[n].id = i})].file_path]]
         IN  Merge([k \in {ToString(i) : i \in DOMAIN article_openai_id_map} |->
                       article_openai_id_map[int(k)]], idx)

\* ScraperOrchestrator._save_article_openai_file_ids: the hash after the call
save_article_openai_file_ids(idx, articles, successful_uploads) ==
    IF DOMAIN successful_uploads = {} THEN idx
    ELSE LET hit == {n \in DOMAIN articles : articles[n].file_path \in DOMAIN successful_uploads}
             article_openai_id_map ==
                 [i \in {articles[n].id : n \in hit} |->
                     successful_uploads[articles[Max({n \in hit : articles[n].id = i})].file_path]]
         IN  Merge(idx, [k \in {ToString(i) : i \in DOMAIN article_openai_id_map} |->
                            article_openai_id_map[int(k)]])

\* variant: the filter on article_ids is missing
create_selection_all(articles, article_ids) ==
    {n \in DOMAIN articles : articles[n].file_path # None}

\* the positions of current_articles that _create_new_articles uploads
create_selection(articles, article_ids) ==
    {n \in DOMAIN articles : articles[n].id \in article_ids /\ articles[n].file_path # None}

\* the positions of current_articles that _update_new_articles replaces
update_selection(articles, article_ids, file_and_openai_id) ==
    {n \in DOMAIN articles :
        /\ articles[n].id \in article_ids
        /\ articles[n].file_path # None
        /\ ToString(articles[n].id) \in DOMAIN file_and_openai_id}

(* ------------------------------------------------------------------ *)
(* Harvester                                                           *)
(* ------------------------------------------------------------------ *)

\* get_all_articles(section_id) against the remote r
ArticlesOf(r, section) ==
    LET ids == SeqOfSet({i \in ArticleIds : r[i] # Absent /\ SectionOfArticle(i) = section})
    IN  [n \in DOMAIN ids |->
            [id |-> ids[n], name |-> ArticleName(ids[n]), body |-> r[ids[n]], file_path |-> None]]

\* variant: gather(..., return_exceptions=True) with the failed listings dropped
gather_skip_failed(listings, errors, first) ==
    [ok |-> TRUE,
     value |-> Flatten(Pick(listings, (DOMAIN listings) \ (DOMAIN errors)))]

\* asyncio.gather(*listings) followed by _flatten: the listings at the
\* positions DOMAIN errors raise, `first` is the one whose exception surfaces
gather(listings, errors, first) ==
    IF DOMAIN errors = {} THEN [ok |-> TRUE, value |-> Flatten(listings)]
    ELSE [ok |-> FALSE, error |-> errors[first]]

\* what an article is made of on the remote
Content(articles) == [n \in DOMAIN articles |-> [articles[n] EXCEPT !.file_path = None]]

(* ------------------------------------------------------------------ *)
(* The order of the steps of sync()                                    *)
(* ------------------------------------------------------------------ *)

\* variant: the lock is committed right after the diff, before any dispatch
sync_next_commit_first(step) ==
    CASE step = "harvest" -> "save"
      [] step = "save" -> "hash"
      [] step = "hash" -> "getlock"
      [] step = "getlock" -> "diff"
      [] step = "diff" -> "commit"
      [] step = "commit" -> "create"
      [] step = "create" -> "update"
      [] step = "update" -> "idle"

\* variant: the lock is committed between the creates and the replaces
sync_next_commit_before_update(step) ==
    CASE step = "harvest" -> "save"
      [] step = "save" -> "hash"
      [] step = "hash" -> "getlock"
      [] step = "getlock" -> "diff"
      [] step = "diff" -> "create"
      [] step = "create" -> "commit"
      [] step = "commit" -> "update"
      [] step = "update" -> "idle"

\* variant: update_files_batch uploads the new files before it deletes the old
update_files_batch_next_upload_first(step) ==
    CASE step = "update" -> "update_upload"
      [] step = "update_upload" -> "update_delete"
      [] step = "update_delete" -> "update_save"

\* the order of the statements of update_files_batch, entered from
\* _update_new_articles and returning to its save of the new ids
update_files_batch_next(step) ==
    CASE step = "update" -> "update_delete"
      [] step = "update_delete" -> "update_upload"
      [] step = "update_upload" -> "update_save"

sync_next(step) ==
    CASE step = "harvest" -> "save"
      [] step = "save" -> "hash"
      [] step = "hash" -> "getlock"
      [] step = "getlock" -> "diff"
      [] step = "diff" -> "create"
      [] step = "create" -> "update"
      [] step = "update" -> "commit"
      [] step = "commit" -> "idle"

(* ------------------------------------------------------------------ *)
(* State                                                               *)
(* ------------------------------------------------------------------ *)

VARIABLES
    remote,               \* remote knowledge base: article id -> HTML body or Absent
    edits,                \* number of edits of the remote so far
    lockRaw,              \* redis key "lock:all"
    index,                \* redis hash "article_openai_id": str(article id) -> file id
    disk,                 \* staged files: path -> content
    storeFiles,           \* artifact store: file id -> content
    storeAttached,        \* file ids attached to the vector store
    nextFile,             \* number of the next file id the artifact store hands out
    pc,                   \* the await point sync() is suspended at
    tick,                 \* number of sync() invocations so far
    status,               \* "none", "running", "completed" or "failed"
    err,                  \* the exception the last tick ended with
    categories,           \* get_articles: categories
    sections,             \* get_articles: sections
    current_articles,     \* self._current_articles
    file_hashes,          \* sync: file_hashes
    remote_file_hashes,   \* sync: remote_file_hashes
    differences,          \* sync: differences
    batch,                \* _update_new_articles: valid_file_paths, valid_openai_ids
    result,               \* the BatchUploadResult being saved
    calls,                \* history: artifact store calls of this tick, in order
    lockAtStart,          \* history: lockRaw when this tick started
    indexAtStart,         \* history: index when this tick started
    lockWrites,           \* history: writes of the lock in this tick
    phases,               \* history: phases of this tick that have completed
    failedListings,       \* history: harvest listings that failed in this tick
    prev,                 \* history: what the previous tick did, see NoPrev
    site,                 \* the remote's categories and the sections of each
    inflight,             \* the tasks of the running gather that have not returned
    done,                 \* the outcome of each upload task that has returned
    listed,               \* history: the listings get_articles has issued, in order
    feed,                 \* the pages the remote serves for one listing
    page,                 \* get_all_*: the page to request next
    fetched,              \* get_all_*: the items collected so far
    requests,             \* history: the page numbers get_all_* has requested, or the
                          \*          calls the uploads of a batch have made, in order
    environ,              \* os.environ: the value of each variable load_config reads
    config_cache,         \* the lru_cache of load_config
    loaded,               \* what the last call of load_config returned or raised
    getenv_calls,         \* history: the number of os.getenv calls made so far
    load_calls,           \* history: the number of load_config calls made so far
    local_data,           \* diffcheck.local: the module-level `data`
    local_lock            \* what the last LocalContentLockStore.get() returned

persistent == <<lockRaw, index, disk, storeFiles, storeAttached, nextFile>>
harvestLocals == <<categories, sections>>
syncLocals == <<file_hashes, remote_file_hashes, differences, batch, result>>
history == <<calls, lockAtStart, indexAtStart, lockWrites, failedListings, prev>>
env == <<remote, edits, tick>>
\* the state of the task-by-task view of a gather and of one paginated listing
taskLevel == <<site, inflight, done, listed, feed, page, fetched, requests>>
\* the state of the process around the pipeline: configuration and local lock
process == <<environ, config_cache, loaded, getenv_calls, load_calls, local_data, local_lock>>

vars == <<remote, edits, lockRaw, index, disk, storeFiles, storeAttached, nextFile,
          pc, tick, status, err, categories, sections, current_articles,
          file_hashes, remote_file_hashes, differences, batch, result,
          calls, lockAtStart, indexAtStart, lockWrites, phases, failedListings, prev,
          site, inflight, done, listed, feed, page, fetched, requests,
          environ, config_cache, loaded, getenv_calls, load_calls, local_data, local_lock>>

\* the article ids an upload was issued for in the call log `log`; with
\* `ok`, those whose upload succeeded
UploadedIn(log, ok) ==
    {log[k].article : k \in {j \in DOMAIN log : log[j].op = "upload" /\ (ok => log[j].ok)}}

\* what is remembered of the previous tick when no tick has run:
\*   completed     it returned from its lock commit
\*   same          it completed and this tick harvested the same articles
\*   uploaded      the article ids an upload succeeded for in any earlier tick
\* and, kept only when `detail` is set,
\*   created       the file ids it created in the artifact store
\*   next          the number of the first file id the tick now running creates
\*   same_harvest  this tick harvested what the last harvest had returned
\*   index_failed  it ended with an exception while it saved new file ids
\*   keys          its new and updated article ids
\*   dispatched    the article ids it issued an upload for
NoPrev(next) ==
    [completed |-> FALSE, same |-> FALSE, same_harvest |-> FALSE, detail |-> FALSE,
     index_failed |-> FALSE, keys |-> {}, dispatched |-> {},
     created |-> {}, next |-> next, uploaded |-> {}]

NoBatch == [articles |-> <<>>, paths |-> <<>>, old_ids |-> <<>>]

NoSite == [categories |-> <<>>, sections |-> <<>>]

\* no gather and no paginated listing is running
NoTasks ==
    /\ site = NoSite
    /\ inflight = {}
    /\ done = <<>>
    /\ listed = <<>>
    /\ feed = <<>>
    /\ page = 1
    /\ fetched = <<>>
    /\ requests = <<>>

(* ------------------------------------------------------------------ *)
(* Configuration: config.load_config                                   *)
(* ------------------------------------------------------------------ *)

\* the values a variable of the environment may have; None is a variable
\* that is not set
EnvValues ==
    [GRAFANA_LOKI_URL |-> {None, "http://localhost:3100", "invalid-url"},
     OPENAI_API_KEY |-> {None, "test-api-key"},
     SCRAPE_OUTPUT_PATH |-> {None, "/tmp/test"},
     REDIS_HOST |-> {None, "localhost"},
     REDIS_PORT |-> {None, "6379", "port"},
     REDIS_PASSWORD |-> {None, "test-password"}]

EnvNames == DOMAIN EnvValues

Environs == {e \in [EnvNames -> UNION {EnvValues[n] : n \in EnvNames}] :
                \A n \in EnvNames : e[n] \in EnvValues[n]}

\* pydantic's reading of a port given as a string
PortOf == [s \in {"6379"} |-> 6379]

\* Settings(**config_data) validates: HttpUrl, str and int fields; only
\* scrape_output_path has a default
Validates(e) ==
    /\ e.GRAFANA_LOKI_URL = "http://localhost:3100"
    /\ e.OPENAI_API_KEY # None
    /\ e.REDIS_HOST # None
    /\ e.REDIS_PORT \in DOMAIN PortOf
    /\ e.REDIS_PASSWORD # None

\* the Settings object number k, built from the environment e
Settings(e, k) ==
    [object |-> k,
     grafana_loki_url |-> e.GRAFANA_LOKI_URL,
     openai_api_key |-> e.OPENAI_API_KEY,
     scrape_output_path |-> IF e.SCRAPE_OUTPUT_PATH = None THEN "./.tmp"
                            ELSE e.SCRAPE_OUTPUT_PATH,
     redis_host |-> e.REDIS_HOST,
     redis_port |-> PortOf[e.REDIS_PORT],
     redis_password |-> e.REDIS_PASSWORD]

\* the os.getenv calls of one execution of the body of load_config
GetenvPerLoad == Cardinality(EnvNames)

\* a call that returned the object `settings`, one that raised `e`, no call
Returns(settings) == [ok |-> TRUE, value |-> settings]
Raises(e) == [ok |-> FALSE, error |-> e]
NotCalled == [ok |-> FALSE, error |-> None]

\* variant: the function is not cached
load_config_uncached(cache, e, k) ==
    IF Validates(e)
    THEN [cache |-> <<>>, result |-> Returns(Settings(e, k)), reads |-> GetenvPerLoad]
    ELSE [cache |-> <<>>, result |-> Raises("ValidationError"), reads |-> GetenvPerLoad]

\* variant: a failed validation is cached as well
load_config_cache_errors(cache, e, k) ==
    IF cache # <<>> THEN [cache |-> cache, result |-> cache[1], reads |-> 0]
    ELSE IF Validates(e)
    THEN [cache |-> <<Returns(Settings(e, k))>>, result |-> Returns(Settings(e, k)),
          reads |-> GetenvPerLoad]
    ELSE [cache |-> <<Raises("ValidationError")>>, result |-> Raises("ValidationError"),
          reads |-> GetenvPerLoad]

\* @functools.lru_cache() load_config(), called as call number k with the
\* environment e: the cache after it, what it returns or raises, and the
\* os.getenv calls it makes; the cache holds what a call has returned
load_config(cache, e, k) ==
    IF cache # <<>> THEN [cache |-> cache, result |-> cache[1], reads |-> 0]
    ELSE IF Validates(e)
    THEN [cache |-> <<Returns(Settings(e, k))>>, result |-> Returns(Settings(e, k)),
          reads |-> GetenvPerLoad]
    ELSE [cache |-> <<>>, result |-> Raises("ValidationError"), reads |-> GetenvPerLoad]

\* the environment the pipeline is started with
StartEnviron ==
    [GRAFANA_LOKI_URL |-> "http://localhost:3100", OPENAI_API_KEY |-> "test-api-key",
     SCRAPE_OUTPUT_PATH |-> None, REDIS_HOST |-> "localhost", REDIS_PORT |-> "6379",
     REDIS_PASSWORD |-> "test-password"]

\* the process has started: nothing is cached, nothing was written locally
ProcessStarted ==
    /\ environ = StartEnviron
    /\ config_cache = <<>>
    /\ loaded = NotCalled
    /\ getenv_calls = 0
    /\ load_calls = 0
    /\ local_data = EmptyMap
    /\ local_lock = None

\* values the key "lock:all" cannot be read from as a ContentLock
CorruptLocks ==
    {JDict([k \in {"x"} |-> JStr(sha256("a"))]),
     JDict([k \in {"1"} |-> JNum("7")])}

Init ==
    /\ remote = [i \in ArticleIds |-> Absent]
    /\ edits = 0
    /\ lockRaw \in {NoLock} \cup CorruptLocks
    /\ index = EmptyMap
    /\ disk = EmptyMap
    /\ storeFiles = EmptyMap
    /\ storeAttached = {}
    /\ nextFile = 1
    /\ pc = "idle"
    /\ tick = 0
    /\ status = "none"
    /\ err = None
    /\ categories = <<>>
    /\ sections = <<>>
    /\ current_articles = <<>>
    /\ file_hashes = EmptyMap
    /\ remote_file_hashes = EmptyMap
    /\ differences = NoDifferences
    /\ batch = NoBatch
    /\ result = NoResult
    /\ calls = <<>>
    /\ lockAtStart = lockRaw
    /\ indexAtStart = index
    /\ lockWrites = 0
    /\ phases = {}
    /\ failedListings = {}
    /\ prev = NoPrev(nextFile)
    /\ NoTasks
    /\ ProcessStarted

(* ------------------------------------------------------------------ *)
(* Control transfer                                                    *)
(* ------------------------------------------------------------------ *)

\* sync() goes on with `step`; reaching "idle" is its normal return
Goto(step) ==
    /\ pc' = step
    /\ status' = IF step = "idle" THEN "completed" ELSE status
    /\ err' = err

\* the phase `phase` is over and sync() goes on with the step after it
Done(phase) ==
    /\ phases' = phases \cup {phase}
    /\ Goto(sync_next(phase))

\* variant: sync() commits file_hashes on its way out (a `finally` around the body)
Raise_commit(e) ==
    /\ pc' = "idle"
    /\ status' = "failed"
    /\ err' = e
    /\ phases' = phases
    /\ lockRaw' = RemoteContentLockStore_update(file_hashes)
    /\ UNCHANGED <<index, disk, storeFiles, storeAttached, nextFile, current_articles>>

\* sync() ends with the exception e: nothing in sync() catches it, and no
\* statement of sync() runs after it
Raise(e) ==
    /\ pc' = "idle"
    /\ status' = "failed"
    /\ err' = e
    /\ phases' = phases
    /\ UNCHANGED <<persistent, current_articles>>

(* ------------------------------------------------------------------ *)
(* Environment                                                         *)
(* ------------------------------------------------------------------ *)

\* between two ticks an article of the remote appears, changes or disappears
EditRemote ==
    /\ pc = "idle"
    /\ edits < MaxEdits
    /\ \E i \in ArticleIds : \E b \in HtmlBodies \cup {Absent} :
          /\ b # remote[i]
          /\ remote' = [remote EXCEPT ![i] = b]
    /\ edits' = edits + 1
    /\ UNCHANGED <<persistent, pc, tick, status, err, harvestLocals, current_articles,
                   syncLocals, history, phases, taskLevel, process>>

\* the tick loop calls sync()
StartTick ==
    /\ pc = "idle"
    /\ tick < MaxTicks
    /\ tick' = tick + 1
    /\ pc' = "categories"
    /\ status' = "running"
    /\ err' = None
    /\ categories' = <<>>
    /\ sections' = <<>>
    /\ file_hashes' = EmptyMap
    /\ remote_file_hashes' = EmptyMap
    /\ differences' = NoDifferences
    /\ batch' = NoBatch
    /\ result' = NoResult
    /\ calls' = <<>>
    /\ lockAtStart' = lockRaw
    /\ indexAtStart' = index
    /\ lockWrites' = 0
    /\ phases' = {}
    /\ failedListings' = {}
    /\ prev' = [completed |-> status = "completed",
                 same |-> FALSE,
                 same_harvest |-> FALSE,
                 detail |-> prev.detail,
                 index_failed |-> prev.detail /\ status = "failed"
                                     /\ DOMAIN result.successful_uploads # {},
                 keys |-> IF prev.detail
                          THEN differences.new_keys \cup differences.updated_keys ELSE {},
                 dispatched |-> IF prev.detail THEN UploadedIn(calls, FALSE) ELSE {},
                 created |-> IF prev.detail
                             THEN {FileId(k) : k \in prev.next..(nextFile - 1)} ELSE {},
                 next |-> IF prev.detail THEN nextFile ELSE prev.next,
                 uploaded |-> prev.uploaded \cup UploadedIn(calls, TRUE)]
    /\ UNCHANGED <<remote, edits, persistent, current_articles, taskLevel, process>>

\* an awaited call raises, or the tick is cancelled: sync() ends there
Abort ==
    /\ pc # "idle"
    /\ Raise("aborted")
    /\ UNCHANGED <<env, process, taskLevel, harvestLocals, syncLocals, history>>

(* ------------------------------------------------------------------ *)
(* Harvest: OptiSignsScraper.get_articles                              *)
(* ------------------------------------------------------------------ *)

ListError(what, id) == what \o " listing " \o ToString(id) \o " failed"

\* categories = await self._client.get_all_categories()
ListCategories ==
    /\ pc = "categories"
    /\ \E ok \in BOOLEAN :
          IF ok
          THEN /\ categories' = SeqOfSet(CategoryIds)
               /\ Goto("sections")
               /\ UNCHANGED <<persistent, current_articles, phases, failedListings>>
          ELSE /\ Raise(ListError("category", 0))
               /\ failedListings' = {ListError("category", 0)}
               /\ UNCHANGED categories
    /\ UNCHANGED <<env, process, taskLevel, sections, syncLocals,
                   calls, lockAtStart, indexAtStart, lockWrites, prev>>

\* sections = flatten(await gather(get_all_sections(c) for c in categories))
ListSections ==
    /\ pc = "sections"
    /\ \E failing \in SUBSET DOMAIN categories :
       \E first \in (IF failing = {} THEN {0} ELSE failing) :
          LET errors == [n \in failing |-> ListError("section", categories[n])]
              r == gather([n \in DOMAIN categories |-> SectionsOf(categories[n])],
                          errors, first)
          IN  /\ failedListings' = Range(errors)
              /\ IF r.ok
                 THEN /\ sections' = r.value
                      /\ Goto("articles")
                      /\ UNCHANGED <<persistent, current_articles, phases>>
                 ELSE /\ Raise(r.error)
                      /\ UNCHANGED sections
    /\ UNCHANGED <<env, process, taskLevel, categories, syncLocals,
                   calls, lockAtStart, indexAtStart, lockWrites, prev>>

\* articles = flatten(await gather(get_all_articles(s) for s in sections));
\* _convert_body_to_markdown(articles); return articles
ListArticles ==
    /\ pc = "articles"
    /\ \E failing \in SUBSET DOMAIN sections :
       \E first \in (IF failing = {} THEN {0} ELSE failing) :
          LET errors == [n \in failing |-> ListError("article", sections[n])]
              r == gather([n \in DOMAIN sections |-> ArticlesOf(remote, sections[n])],
                          errors, first)
              articles == [n \in DOMAIN r.value |-> convert_body_to_markdown(r.value[n])]
          IN  /\ failedListings' = Range(errors)
              /\ IF r.ok
                 THEN /\ current_articles' = articles
                      /\ prev' = [prev EXCEPT
                                    !.same = prev.completed
                                                /\ Content(articles) = Content(current_articles),
                                    !.same_harvest = prev.detail
                                                /\ Content(articles) = Content(current_articles)]
                      /\ Done("harvest")
                      /\ UNCHANGED persistent
                 ELSE /\ Raise(r.error)
                      /\ UNCHANGED prev
    /\ UNCHANGED <<env, process, taskLevel, harvestLocals, syncLocals,
                   calls, lockAtStart, indexAtStart, lockWrites>>

(* ------------------------------------------------------------------ *)
(* Stage, hash, read the lock, diff                                    *)
(* ------------------------------------------------------------------ *)

\* await self._save_articles(self._current_articles)
SaveArticles ==
    /\ pc = "save"
    /\ LET path(n) == StagedPath(current_articles[n].name)
           written == {path(n) : n \in DOMAIN current_articles}
           last(p) == Max({n \in DOMAIN current_articles : path(n) = p})
       IN  /\ disk' = [p \in (DOMAIN disk) \cup written |->
                          IF p \in written THEN current_articles[last(p)].body ELSE disk[p]]
           /\ current_articles' =
                 [n \in DOMAIN current_articles |->
                     [current_articles[n] EXCEPT !.file_path = path(n)]]
    /\ Done("save")
    /\ UNCHANGED <<env, process, taskLevel, lockRaw, index, storeFiles, storeAttached, nextFile,
                   harvestLocals, syncLocals, history>>

\* file_hashes = self._generate_file_hashes(self._current_articles)
GenerateHashes ==
    /\ pc = "hash"
    /\ LET r == generate_file_hashes(current_articles)
       IN  IF r.ok
           THEN /\ file_hashes' = r.value
                /\ Done("hash")
                /\ UNCHANGED <<persistent, current_articles>>
           ELSE /\ Raise(r.error)
                /\ UNCHANGED file_hashes
    /\ UNCHANGED <<env, process, taskLevel, harvestLocals, remote_file_hashes, differences,
                   batch, result, history>>

\* remote_file_hashes = await self._remote_content_lock_store.get()
GetLock ==
    /\ pc = "getlock"
    /\ LET r == RemoteContentLockStore_get(lockRaw)
       IN  IF r.ok
           THEN /\ remote_file_hashes' = r.value
                /\ Done("getlock")
                /\ UNCHANGED <<persistent, current_articles>>
           ELSE /\ Raise(r.error)
                /\ UNCHANGED remote_file_hashes
    /\ UNCHANGED <<env, process, taskLevel, harvestLocals, file_hashes, differences,
                   batch, result, history>>

\* differences = get_dict_differences(remote_file_hashes, file_hashes)
Diff ==
    /\ pc = "diff"
    /\ differences' = get_dict_differences(remote_file_hashes, file_hashes)
    /\ Done("diff")
    /\ UNCHANGED <<env, process, taskLevel, persistent, harvestLocals, current_articles, file_hashes,
                   remote_file_hashes, batch, result, history>>

(* ------------------------------------------------------------------ *)
(* Dispatch                                                            *)
(* ------------------------------------------------------------------ *)

\* variant: an upload is issued for every path of the batch, staged or not
UploadCalls_unchecked(articles, sel, made, outcomes) ==
    [k \in 1..Cardinality(sel) |->
        LET n == SeqOfSet(sel)[k]
        IN  [op |-> "upload", article |-> articles[n].id, arg |-> articles[n].file_path,
             ok |-> outcomes[k] = "ok"]]

\* the uploads a batch issues to the artifact store: `made` are the positions
\* of the batch whose staged file exists
UploadCalls(articles, sel, made, outcomes) ==
    [k \in 1..Cardinality(made) |->
        LET n == SeqOfSet(sel)[SeqOfSet(made)[k]]
        IN  [op |-> "upload", article |-> articles[n].id, arg |-> articles[n].file_path,
             ok |-> outcomes[SeqOfSet(made)[k]] = "ok"]]

\* the call of _update_assitant_vector_store that ends a batch; an exception
\* it raises is logged and swallowed
RefreshCalls(refresh, refreshed) ==
    IF refresh
    THEN <<[op |-> "refresh", article |-> 0, arg |-> "assistant", ok |-> refreshed]>>
    ELSE <<>>

\* the paths upload_files_batch is given for the articles of
\* current_articles at the positions sel
UploadPaths(sel) ==
    [k \in 1..Cardinality(sel) |-> current_articles[SeqOfSet(sel)[k]].file_path]

\* upload_files_batch(paths) returns, its uploads having ended as `outcomes`
UploadReturn(sel, outcomes) ==
    \E refreshed \in BOOLEAN :
        LET r == upload_files_batch(UploadPaths(sel), outcomes, disk, nextFile)
        IN  /\ r.refresh \/ refreshed
            /\ storeFiles' = Merge(storeFiles, r.created)
            /\ storeAttached' = storeAttached \cup r.attached
            /\ nextFile' = r.next
            /\ result' = [successful_uploads |-> r.successful_uploads,
                          failed_uploads |-> r.failed_uploads]
            /\ calls' = calls \o UploadCalls(current_articles, sel, r.remote_calls, outcomes)
                              \o RefreshCalls(r.refresh, refreshed)

\* result = await self._uploader.upload_files_batch(paths), for the articles
\* of current_articles at the positions sel
Upload(sel) ==
    \E outcomes \in [DOMAIN UploadPaths(sel) -> UploadOutcomes] : UploadReturn(sel, outcomes)

\* _create_new_articles(differences.new_keys), up to the batch upload
CreateUpload ==
    /\ pc = "create"
    /\ IF differences.new_keys = {}
       THEN /\ Done("create")
            /\ UNCHANGED <<storeFiles, storeAttached, nextFile, result, calls>>
       ELSE /\ Upload(create_selection(current_articles, differences.new_keys))
            /\ Goto("create_save")
            /\ UNCHANGED phases
    /\ UNCHANGED <<env, process, taskLevel, lockRaw, index, disk, harvestLocals, current_articles, file_hashes,
                   remote_file_hashes, differences, batch,
                   lockAtStart, indexAtStart, lockWrites, failedListings, prev>>

\* variant: the new file ids are not written to the hash
SaveIds_skip(phase) ==
    /\ index' = index
    /\ result' = NoResult
    /\ Done(phase)
    /\ UNCHANGED <<env, process, taskLevel, lockRaw, disk, storeFiles, storeAttached, nextFile, harvestLocals,
                   current_articles, file_hashes, remote_file_hashes, differences, batch,
                   history>>

\* variant: a batch that reports a failed upload ends sync() with an exception
SaveIds_raise_on_failed(phase) ==
    /\ IF result.failed_uploads # <<>>
       THEN /\ Raise("upload failed")
            /\ UNCHANGED result
       ELSE /\ index' = save_article_openai_file_ids(index, current_articles,
                                                      result.successful_uploads)
            /\ result' = NoResult
            /\ Done(phase)
            /\ UNCHANGED <<lockRaw, disk, storeFiles, storeAttached, nextFile, current_articles>>
    /\ UNCHANGED <<env, process, taskLevel, harvestLocals, file_hashes, remote_file_hashes, differences, batch,
                   history>>

\* variant: the hash is written also when no upload succeeded
IndexWriteCalls_always(successful_uploads) ==
    <<[op |-> "hset", article |-> 0, arg |-> "article_openai_id", ok |-> TRUE]>>

\* the hset of _save_article_openai_file_ids, which is not reached with no
\* successful upload
IndexWriteCalls(successful_uploads) ==
    IF DOMAIN successful_uploads = {} THEN <<>>
    ELSE <<[op |-> "hset", article |-> 0, arg |-> "article_openai_id", ok |-> TRUE]>>

\* await self._save_article_openai_file_ids(result.successful_uploads)
SaveIds(phase) ==
    /\ index' = save_article_openai_file_ids(index, current_articles, result.successful_uploads)
    /\ calls' = calls \o IndexWriteCalls(result.successful_uploads)
    /\ result' = NoResult
    /\ Done(phase)
    /\ UNCHANGED <<env, process, taskLevel, lockRaw, disk, storeFiles, storeAttached, nextFile, harvestLocals,
                   current_articles, file_hashes, remote_file_hashes, differences, batch,
                   lockAtStart, indexAtStart, lockWrites, failedListings, prev>>

CreateSave ==
    /\ pc = "create_save"
    /\ SaveIds("create")

\* _update_new_articles(differences.updated_keys), up to the hgetall and the
\* choice of the articles to replace
UpdateLookup ==
    /\ pc = "update"
    /\ IF differences.updated_keys = {}
       THEN /\ Done("update")
            /\ UNCHANGED batch
       ELSE LET sel == update_selection(current_articles, differences.updated_keys, index)
                pos == SeqOfSet(sel)
            IN  /\ batch' = [articles |-> [k \in DOMAIN pos |-> current_articles[pos[k]].id],
                             paths |-> [k \in DOMAIN pos |-> current_articles[pos[k]].file_path],
                             old_ids |-> [k \in DOMAIN pos |->
                                            index[ToString(current_articles[pos[k]].id)]]]
                /\ Goto(update_files_batch_next("update"))
                /\ UNCHANGED phases
    /\ UNCHANGED <<env, process, taskLevel, persistent, harvestLocals, current_articles, file_hashes,
                   remote_file_hashes, differences, result, history>>

\* variant: an exception of a delete leaves _delete_file_async and ends sync()
UpdateDelete_raise ==
    /\ pc = "update_delete"
    /\ \E outcomes \in [DOMAIN batch.old_ids -> DeleteOutcomes] :
          LET r == delete_files(batch.old_ids, outcomes, storeFiles, storeAttached)
              log == [k \in DOMAIN batch.old_ids |->
                        [op |-> "delete", article |-> batch.articles[k],
                         arg |-> batch.old_ids[k], ok |-> outcomes[k] = "ok"]]
          IN  IF \A k \in DOMAIN outcomes : outcomes[k] = "ok"
              THEN /\ storeFiles' = r.files
                   /\ storeAttached' = r.attached
                   /\ calls' = calls \o log
                   /\ Goto(update_files_batch_next("update_delete"))
                   /\ UNCHANGED <<lockRaw, index, disk, nextFile, current_articles, phases>>
              ELSE /\ calls' = calls \o log
                   /\ Raise("delete failed")
    /\ UNCHANGED <<env, process, taskLevel, harvestLocals, syncLocals, lockAtStart, indexAtStart, lockWrites,
                   failedListings, prev>>

\* update_files_batch: await gather(_delete_file_async(id) for id in openai_ids)
UpdateDelete ==
    /\ pc = "update_delete"
    /\ \E outcomes \in [DOMAIN batch.old_ids -> DeleteOutcomes] :
          LET r == delete_files(batch.old_ids, outcomes, storeFiles, storeAttached)
          IN  /\ storeFiles' = r.files
              /\ storeAttached' = r.attached
              /\ calls' = calls \o [k \in DOMAIN batch.old_ids |->
                                      [op |-> "delete", article |-> batch.articles[k],
                                       arg |-> batch.old_ids[k], ok |-> outcomes[k] = "ok"]]
    /\ Goto(update_files_batch_next("update_delete"))
    /\ UNCHANGED <<env, process, taskLevel, lockRaw, index, disk, nextFile, harvestLocals, current_articles,
                   syncLocals, lockAtStart, indexAtStart, lockWrites, failedListings, prev,
                   phases>>

\* update_files_batch: return await self.upload_files_batch(file_paths)
UpdateUpload ==
    /\ pc = "update_upload"
    /\ Upload({n \in DOMAIN current_articles :
                 \E k \in DOMAIN batch.articles : batch.articles[k] = current_articles[n].id})
    /\ Goto(update_files_batch_next("update_upload"))
    /\ UNCHANGED <<env, process, taskLevel, lockRaw, index, disk, harvestLocals, current_articles, file_hashes,
                   remote_file_hashes, differences, batch, phases,
                   lockAtStart, indexAtStart, lockWrites, failedListings, prev>>

UpdateSave ==
    /\ pc = "update_save"
    /\ SaveIds("update")

(* ------------------------------------------------------------------ *)
(* Commit                                                              *)
(* ------------------------------------------------------------------ *)

\* variant: the new hashes are merged into the previous Lock
CommitLock_merge ==
    /\ pc = "commit"
    /\ lockRaw' = RemoteContentLockStore_update(Merge(remote_file_hashes, file_hashes))
    /\ lockWrites' = lockWrites + 1
    /\ Done("commit")
    /\ UNCHANGED <<env, process, taskLevel, index, disk, storeFiles, storeAttached, nextFile, harvestLocals,
                   current_articles, syncLocals, calls, lockAtStart, indexAtStart,
                   failedListings, prev>>

\* variant: nothing is committed when no article was harvested
CommitLock_skip_empty ==
    /\ pc = "commit"
    /\ lockRaw' = IF current_articles = <<>> THEN lockRaw
                  ELSE RemoteContentLockStore_update(file_hashes)
    /\ lockWrites' = lockWrites + 1
    /\ Done("commit")
    /\ UNCHANGED <<env, process, taskLevel, index, disk, storeFiles, storeAttached, nextFile, harvestLocals,
                   current_articles, syncLocals, calls, lockAtStart, indexAtStart,
                   failedListings, prev>>

\* await self._remote_content_lock_store.update(file_hashes)
CommitLock ==
    /\ pc = "commit"
    /\ lockRaw' = RemoteContentLockStore_update(file_hashes)
    /\ lockWrites' = lockWrites + 1
    /\ Done("commit")
    /\ UNCHANGED <<env, process, taskLevel, index, disk, storeFiles, storeAttached, nextFile, harvestLocals,
                   current_articles, syncLocals, calls, lockAtStart, indexAtStart,
                   failedListings, prev>>

Next ==
    \/ EditRemote
    \/ StartTick
    \/ Abort
    \/ ListCategories
    \/ ListSections
    \/ ListArticles
    \/ SaveArticles
    \/ GenerateHashes
    \/ GetLock
    \/ Diff
    \/ CreateUpload
    \/ CreateSave
    \/ UpdateLookup
    \/ UpdateDelete
    \/ UpdateUpload
    \/ UpdateSave
    \/ CommitLock

Spec == Init /\ [][Next]_vars

(* ------------------------------------------------------------------ *)
(* Recovery after a failed tick                                        *)
(* ------------------------------------------------------------------ *)

\* the tick loop starts either on empty stores, or on the stores an earlier
\* tick left that committed the hash of article 1 although its upload had
\* failed at files.create; the details of each tick are remembered for the
\* next one
InitRecovery ==
    /\ edits = 0
    /\ \/ /\ remote = [i \in ArticleIds |-> Absent]
          /\ lockRaw = NoLock
          /\ disk = EmptyMap
          /\ current_articles = <<>>
       \/ /\ remote = [i \in ArticleIds |-> IF i = 1 THEN "<p>a</p>" ELSE Absent]
          /\ lockRaw = RemoteContentLockStore_update([i \in {1} |-> sha256(md("<p>a</p>"))])
          /\ disk = [path \in {StagedPath(ArticleName(1))} |-> md("<p>a</p>")]
          /\ current_articles =
                <<[id |-> 1, name |-> ArticleName(1), body |-> md("<p>a</p>"),
                   file_path |-> StagedPath(ArticleName(1))]>>
    /\ index = EmptyMap
    /\ storeFiles = EmptyMap
    /\ storeAttached = {}
    /\ nextFile = 1
    /\ pc = "idle"
    /\ tick = 0
    /\ status = "none"
    /\ err = None
    /\ categories = <<>>
    /\ sections = <<>>
    /\ file_hashes = EmptyMap
    /\ remote_file_hashes = EmptyMap
    /\ differences = NoDifferences
    /\ batch = NoBatch
    /\ result = NoResult
    /\ calls = <<>>
    /\ lockAtStart = lockRaw
    /\ indexAtStart = index
    /\ lockWrites = 0
    /\ phases = {}
    /\ failedListings = {}
    /\ prev = [NoPrev(nextFile) EXCEPT !.detail = TRUE]
    /\ NoTasks
    /\ ProcessStarted

SpecRecovery == InitRecovery /\ [][Next]_vars

(* ------------------------------------------------------------------ *)
(* The differ on arbitrary maps                                        *)
(* ------------------------------------------------------------------ *)

\* keys and values of the maps handed to get_dict_differences
DiffKeys == 1..MaxDiffKeys
HashValues == {sha256(md(b)) : b \in HtmlBodies \ {""}}
HashMaps == UNION {[S -> HashValues] : S \in SUBSET DiffKeys}

\* sync() stands before its call of get_dict_differences with any previous
\* Lock and any map of current hashes
InitDiff ==
    /\ remote = [i \in ArticleIds |-> Absent]
    /\ edits = 0
    /\ lockRaw = NoLock
    /\ index = EmptyMap
    /\ disk = EmptyMap
    /\ storeFiles = EmptyMap
    /\ storeAttached = {}
    /\ nextFile = 1
    /\ pc = "diff"
    /\ tick = 1
    /\ status = "none"
    /\ err = None
    /\ categories = <<>>
    /\ sections = <<>>
    /\ current_articles = <<>>
    /\ file_hashes \in HashMaps
    /\ remote_file_hashes \in HashMaps
    /\ differences = NoDifferences
    /\ batch = NoBatch
    /\ result = NoResult
    /\ calls = <<>>
    /\ lockAtStart = lockRaw
    /\ indexAtStart = index
    /\ lockWrites = 0
    /\ phases = {}
    /\ failedListings = {}
    /\ prev = NoPrev(nextFile)
    /\ NoTasks
    /\ ProcessStarted

NextDiff == Diff

SpecDiff == InitDiff /\ [][NextDiff]_vars

(* ------------------------------------------------------------------ *)
(* The dispatch phases on arbitrary batches                            *)
(* ------------------------------------------------------------------ *)

BatchIds == 1..MaxBatch

\* the staged article of id i, as _save_articles leaves it
StagedAs(i, name) ==
    [id |-> i, name |-> name, body |-> "a", file_path |-> StagedPath(name)]

StagedArticle(i) == StagedAs(i, ArticleName(i))

\* the names of the articles as the remote lists them, different for
\* different articles
ListedNames == [i \in BatchIds |-> ArticleName(i)]

\* names of which those of articles 1 and 2 have the same slug
CollidingNames == [i \in BatchIds |-> IF i = 2 THEN "Article-1" ELSE ArticleName(i)]

\* sync() stands before _create_new_articles: every article of `all` is
\* absent, new, or updated with the artifact FileId(i) of its previous body
\* in the store; the staged file of a harvested article may be gone from the
\* disk
InitBatchesNamed(all, names) ==
    \E cls \in [all -> {"absent", "new", "updated"}] :
        LET live == {i \in all : cls[i] # "absent"}
            updated == {i \in all : cls[i] = "updated"}
            ids == SeqOfSet(live)
        IN  \E present \in SUBSET live :
               /\ remote = [i \in ArticleIds |-> Absent]
               /\ edits = 0
               /\ current_articles = [n \in DOMAIN ids |-> StagedAs(ids[n], names[ids[n]])]
               /\ disk = [path \in {StagedPath(names[i]) : i \in present} |-> "a"]
               /\ file_hashes = [i \in live |-> sha256("a")]
               /\ remote_file_hashes = [i \in updated |-> sha256("b")]
               /\ lockRaw = RemoteContentLockStore_update(remote_file_hashes)
               /\ index = [k \in {ToString(i) : i \in updated} |-> FileId(int(k))]
               /\ storeFiles = [f \in {FileId(i) : i \in updated} |-> "b"]
               /\ storeAttached = {FileId(i) : i \in updated}
               /\ nextFile = MaxBatch + 1
               /\ differences = get_dict_differences(remote_file_hashes, file_hashes)
               /\ pc = "create"
               /\ tick = 1
               /\ status = "running"
               /\ err = None
               /\ categories = <<>>
               /\ sections = <<>>
               /\ batch = NoBatch
               /\ result = NoResult
               /\ calls = <<>>
               /\ lockAtStart = lockRaw
               /\ indexAtStart = index
               /\ lockWrites = 0
               /\ phases = {"harvest", "save", "hash", "getlock", "diff"}
               /\ failedListings = {}
               /\ prev = NoPrev(nextFile)
               /\ NoTasks
               /\ ProcessStarted

InitBatches(all) == InitBatchesNamed(all, ListedNames)

InitUploader == InitBatches(BatchIds)

\* the dispatch phases on batches in which two articles may share a staged
\* file
InitCollision == \E names \in {ListedNames, CollidingNames} : InitBatchesNamed(BatchIds, names)

NextUploader ==
    \/ CreateUpload
    \/ CreateSave
    \/ UpdateLookup
    \/ UpdateDelete
    \/ UpdateUpload
    \/ UpdateSave

SpecUploader == InitUploader /\ [][NextUploader]_vars

SpecCollision == InitCollision /\ [][NextUploader]_vars

\* the dispatch phases followed by the lock commit; every awaited call
\* returns, so sync() goes on as long as it has a statement to run
NextDispatch ==
    \/ CreateUpload
    \/ CreateSave
    \/ UpdateLookup
    \/ UpdateDelete
    \/ UpdateUpload
    \/ UpdateSave
    \/ CommitLock

InitDispatch == InitBatches(ArticleIds)

SpecDispatch == InitDispatch /\ [][NextDispatch]_vars /\ WF_vars(NextDispatch)

(* ------------------------------------------------------------------ *)
(* Harvest, one listing at a time: OptiSignsScraper.get_articles       *)
(* ------------------------------------------------------------------ *)

\* variant: only the first id is listed
ListingTasks_first_only(op, ids) ==
    [n \in (DOMAIN ids) \cap {1} |-> [op |-> op, arg |-> ids[n], n |-> n]]

\* the coroutines get_all_<op>(id) for the ids of `ids`, in the order gather
\* is given them
ListingTasks(op, ids) == [n \in DOMAIN ids |-> [op |-> op, arg |-> ids[n], n |-> n]]

\* the step of get_articles that awaits the listings `op`
Waiting(op) == op \o "_wait"

\* the awaited listings `op` have all returned
Returned(op) == \A t \in inflight : t.op # op

\* the listings get_all_<op>(id) are awaited: gather schedules every coroutine
\* it is given before it suspends, so all of them are in flight from here on
StartListings(op, ids) ==
    /\ inflight' = inflight \cup Range(ListingTasks(op, ids))
    /\ listed' = listed \o ListingTasks(op, ids)
    /\ Goto(Waiting(op))
    /\ UNCHANGED <<env, process, persistent, harvestLocals, current_articles, syncLocals, history,
                   phases, site, done, feed, page, fetched, requests>>

\* categories = await self._client.get_all_categories(): the call
CallCategories ==
    /\ pc = "categories"
    /\ StartListings("category", <<0>>)

\* one listing in flight returns or raises; an exception surfaces in
\* get_articles while it awaits this listing, and the others stay in flight
ListingReturns ==
    \E t \in inflight : \E ok \in BOOLEAN :
        /\ t.op \in {"category", "section", "article"}
        /\ inflight' = inflight \ {t}
        /\ IF ~ok /\ pc = Waiting(t.op)
           THEN /\ Raise(ListError(t.op, t.arg))
                /\ failedListings' = failedListings \cup {ListError(t.op, t.arg)}
           ELSE UNCHANGED <<pc, status, err, phases, persistent, current_articles,
                            failedListings>>
        /\ UNCHANGED <<env, process, harvestLocals, syncLocals,
                       calls, lockAtStart, indexAtStart, lockWrites, prev,
                       site, done, listed, feed, page, fetched, requests>>

\* categories = await self._client.get_all_categories(): the result
AwaitCategories ==
    /\ pc = Waiting("category")
    /\ Returned("category")
    /\ categories' = site.categories
    /\ Goto("sections")
    /\ UNCHANGED <<env, process, taskLevel, persistent, sections, current_articles, syncLocals,
                   history, phases>>

\* asyncio.gather(*[get_all_sections(category_id=category.id) for category in categories])
GatherSections ==
    /\ pc = "sections"
    /\ StartListings("section", categories)

\* sections = self._flatten(await asyncio.gather(...))
AwaitSections ==
    /\ pc = Waiting("section")
    /\ Returned("section")
    /\ sections' = Flatten([n \in DOMAIN categories |-> site.sections[categories[n]]])
    /\ Goto("articles")
    /\ UNCHANGED <<env, process, taskLevel, persistent, categories, current_articles, syncLocals,
                   history, phases>>

\* asyncio.gather(*[get_all_articles(section_id=section.id) for section in sections])
GatherArticles ==
    /\ pc = "articles"
    /\ StartListings("article", sections)

\* articles = self._flatten(await asyncio.gather(...));
\* _convert_body_to_markdown(articles); return articles
AwaitArticles ==
    /\ pc = Waiting("article")
    /\ Returned("article")
    /\ LET found == Flatten([n \in DOMAIN sections |-> ArticlesOf(remote, sections[n])])
           articles == [n \in DOMAIN found |-> convert_body_to_markdown(found[n])]
       IN  /\ current_articles' = articles
           /\ prev' = [prev EXCEPT
                         !.same = prev.completed
                                     /\ Content(articles) = Content(current_articles),
                         !.same_harvest = prev.detail
                                     /\ Content(articles) = Content(current_articles)]
    /\ Done("harvest")
    /\ UNCHANGED <<env, process, taskLevel, persistent, harvestLocals, syncLocals,
                   calls, lockAtStart, indexAtStart, lockWrites, failedListings>>

HarvestCategoryIds == 1..MaxCats

\* the sections a category may have: the sections 1..MaxCats may hold
\* articles, the others are empty
SectionLists(c) == {<<>>, <<c>>, <<c + MaxCats, c>>}

\* the hierarchies of the remote: some categories, in either order, and the
\* sections of each
Sites ==
    UNION {{[categories |-> cs, sections |-> ss] :
               ss \in {f \in [Range(cs) -> UNION {SectionLists(c) : c \in Range(cs)}] :
                          \A c \in Range(cs) : f[c] \in SectionLists(c)}} :
           cs \in UNION {{SeqOfSet(S), Reverse(SeqOfSet(S))} : S \in SUBSET HarvestCategoryIds}}

\* sync() has just been called for the first time and is about to harvest
InitHarvest ==
    /\ remote \in [ArticleIds -> {"<p>a</p>", Absent}]
    /\ edits = 0
    /\ lockRaw = NoLock
    /\ index = EmptyMap
    /\ disk = EmptyMap
    /\ storeFiles = EmptyMap
    /\ storeAttached = {}
    /\ nextFile = 1
    /\ pc = "categories"
    /\ tick = 1
    /\ status = "running"
    /\ err = None
    /\ categories = <<>>
    /\ sections = <<>>
    /\ current_articles = <<>>
    /\ file_hashes = EmptyMap
    /\ remote_file_hashes = EmptyMap
    /\ differences = NoDifferences
    /\ batch = NoBatch
    /\ result = NoResult
    /\ calls = <<>>
    /\ lockAtStart = lockRaw
    /\ indexAtStart = index
    /\ lockWrites = 0
    /\ phases = {}
    /\ failedListings = {}
    /\ prev = NoPrev(nextFile)
    /\ site \in Sites
    /\ inflight = {}
    /\ done = <<>>
    /\ listed = <<>>
    /\ feed = <<>>
    /\ page = 1
    /\ fetched = <<>>
    /\ requests = <<>>
    /\ ProcessStarted

NextHarvest ==
    \/ CallCategories
    \/ ListingReturns
    \/ AwaitCategories
    \/ GatherSections
    \/ AwaitSections
    \/ GatherArticles
    \/ AwaitArticles

SpecHarvest == InitHarvest /\ [][NextHarvest]_vars

(* ------------------------------------------------------------------ *)
(* A batch, one upload at a time: FileUploader.upload_files_batch      *)
(* ------------------------------------------------------------------ *)

\* tasks = [self.upload_file_async(file_path) for file_path in file_paths]
UploadTasks(paths) == {[op |-> "upload", arg |-> paths[n], n |-> n] : n \in DOMAIN paths}

\* _create_new_articles(differences.new_keys), up to the gather of
\* upload_files_batch: every upload of the batch is in flight from here on
CreateGather ==
    /\ pc = "create"
    /\ IF differences.new_keys = {}
       THEN /\ Done("create")
            /\ UNCHANGED <<inflight, done>>
       ELSE /\ inflight' = inflight \cup
                   UploadTasks(UploadPaths(create_selection(current_articles,
                                                            differences.new_keys)))
            /\ done' = <<>>
            /\ Goto("create_gather")
            /\ UNCHANGED phases
    /\ UNCHANGED <<env, process, persistent, harvestLocals, current_articles, syncLocals, history,
                   site, listed, feed, page, fetched, requests>>

\* one upload in flight ends: upload_file_async returns its pair, or None
\* after an exception it has caught
UploadReturns ==
    \E t \in inflight : \E o \in UploadOutcomes :
        /\ t.op = "upload"
        /\ inflight' = inflight \ {t}
        /\ done' = (t.n :> o) @@ done
        /\ UNCHANGED <<env, process, persistent, pc, status, err, harvestLocals, current_articles,
                       syncLocals, history, phases,
                       site, listed, feed, page, fetched, requests>>

\* results = await asyncio.gather(*tasks) returns and upload_files_batch
\* goes on to its end
CreateCollect ==
    /\ pc = "create_gather"
    /\ \A t \in inflight : t.op \notin {"upload", "attach"}
    /\ UploadReturn(create_selection(current_articles, differences.new_keys), done)
    /\ Goto("create_save")
    /\ UNCHANGED <<env, process, taskLevel, lockRaw, index, disk, harvestLocals, current_articles,
                   file_hashes, remote_file_hashes, differences, batch,
                   lockAtStart, indexAtStart, lockWrites, failedListings, prev, phases>>

NextUploadTasks ==
    \/ CreateGather
    \/ UploadReturns
    \/ CreateCollect

SpecUploadTasks == InitUploader /\ [][NextUploadTasks]_vars

(* ------------------------------------------------------------------ *)
(* One upload, one remote call at a time: upload_file_async            *)
(* ------------------------------------------------------------------ *)

\* a remote call of upload_file_sync for path number n of the batch
FileCall(op, n, ok) == [op |-> op, n |-> n, ok |-> ok]

\* variant: an exception of vector_stores.files.create is not noticed
AttachOutcome_ignored(ok) == "ok"

\* what upload_file_async returns after vector_stores.files.create: the file
\* id when it returned, None when it raised
AttachOutcome(ok) == IF ok THEN "ok" ELSE "attach_fail"

\* if not os.path.exists(file_path): return file_path, None
UploadMissing ==
    \E t \in inflight :
        /\ t.op = "upload"
        /\ t.arg \notin DOMAIN disk
        /\ inflight' = inflight \ {t}
        /\ done' = (t.n :> "push_fail") @@ done
        /\ UNCHANGED <<env, process, persistent, pc, status, err, harvestLocals, current_articles,
                       syncLocals, history, phases,
                       site, listed, feed, page, fetched, requests>>

\* self._openai_client.files.create(file=file, purpose="assistants") returns
\* or raises; after an exception upload_file_async returns file_path, None
UploadPush ==
    \E t \in inflight : \E ok \in BOOLEAN :
        /\ t.op = "upload"
        /\ t.arg \in DOMAIN disk
        /\ requests' = Append(requests, FileCall("push", t.n, ok))
        /\ IF ok
           THEN /\ inflight' = (inflight \ {t}) \cup {[t EXCEPT !.op = "attach"]}
                /\ UNCHANGED done
           ELSE /\ inflight' = inflight \ {t}
                /\ done' = (t.n :> "push_fail") @@ done
        /\ UNCHANGED <<env, process, persistent, pc, status, err, harvestLocals, current_articles,
                       syncLocals, history, phases,
                       site, listed, feed, page, fetched>>

\* self._openai_client.vector_stores.files.create(...) returns or raises
UploadAttach ==
    \E t \in inflight : \E ok \in BOOLEAN :
        /\ t.op = "attach"
        /\ requests' = Append(requests, FileCall("attach", t.n, ok))
        /\ inflight' = inflight \ {t}
        /\ done' = (t.n :> AttachOutcome(ok)) @@ done
        /\ UNCHANGED <<env, process, persistent, pc, status, err, harvestLocals, current_articles,
                       syncLocals, history, phases,
                       site, listed, feed, page, fetched>>

NextUploadCalls ==
    \/ CreateGather
    \/ UploadMissing
    \/ UploadPush
    \/ UploadAttach
    \/ CreateCollect

SpecUploadCalls == InitUploader /\ [][NextUploadCalls]_vars

(* ------------------------------------------------------------------ *)
(* One paginated listing: OptiSignsClient.get_all_*                    *)
(* ------------------------------------------------------------------ *)

\* the response of the remote to the request for page p: past the pages of
\* its feed the remote serves the last one again
Served(p) == IF p <= Len(feed) THEN feed[p] ELSE feed[Len(feed)]

\* variant: the loop ends with the first page that has no item
get_all_stop_on_empty(p, items, response) ==
    [items |-> items \o response.items,
     page |-> IF response.items = <<>> THEN p ELSE p + 1,
     return |-> response.items = <<>>]

\* variant: the loop ends before it takes the items of the last page
get_all_drop_last(p, items, response) ==
    [items |-> IF response.next_page = None THEN items ELSE items \o response.items,
     page |-> IF response.next_page = None THEN p ELSE p + 1,
     return |-> response.next_page = None]

\* one turn of the `while True` of get_all_categories, get_all_sections and
\* get_all_articles after the response to page p has arrived:
\*   items.extend(response.items); if response.next_page is None: break; page += 1
get_all(p, items, response) ==
    [items |-> items \o response.items,
     page |-> IF response.next_page = None THEN p ELSE p + 1,
     return |-> response.next_page = None]

\* response = await self.get_<items>(..., page=page): the request; the
\* counter of a listing that the remote never ends stops at MaxPages
RequestPage ==
    /\ pc = "page"
    /\ page <= MaxPages
    /\ inflight' = inflight \cup {[op |-> "page", arg |-> page, n |-> Len(requests) + 1]}
    /\ requests' = Append(requests, page)
    /\ pc' = "page_wait"
    /\ UNCHANGED <<env, process, persistent, status, err, harvestLocals, current_articles,
                   syncLocals, history, phases, site, done, listed, feed, page, fetched>>

\* response = await self.get_<items>(..., page=page): the response, or the
\* exception of the request, which ends the listing; then the rest of the turn
PageResponse ==
    /\ pc = "page_wait"
    /\ \E t \in inflight : \E ok \in BOOLEAN :
          /\ t.op = "page"
          /\ inflight' = inflight \ {t}
          /\ IF ok
             THEN LET turn == get_all(page, fetched, Served(t.arg))
                  IN  /\ fetched' = turn.items
                      /\ page' = turn.page
                      /\ pc' = IF turn.return THEN "page_return" ELSE "page"
             ELSE /\ pc' = "page_raise"
                  /\ UNCHANGED <<page, fetched>>
    /\ UNCHANGED <<env, process, persistent, status, err, harvestLocals, current_articles,
                   syncLocals, history, phases, site, done, listed, feed, requests>>

\* the items one page may hold
PageItems == {<<>>, <<1>>, <<2, 1>>}

Pages == [items : PageItems, next_page : {None, "next"}]

\* what the remote may serve for one listing
Feeds == UNION {[1..n -> Pages] : n \in 1..MaxPages}

\* one of the three listings has just been called
InitPages ==
    /\ remote = [i \in ArticleIds |-> Absent]
    /\ edits = 0
    /\ lockRaw = NoLock
    /\ index = EmptyMap
    /\ disk = EmptyMap
    /\ storeFiles = EmptyMap
    /\ storeAttached = {}
    /\ nextFile = 1
    /\ pc = "page"
    /\ tick = 1
    /\ status = "running"
    /\ err = None
    /\ categories = <<>>
    /\ sections = <<>>
    /\ current_articles = <<>>
    /\ file_hashes = EmptyMap
    /\ remote_file_hashes = EmptyMap
    /\ differences = NoDifferences
    /\ batch = NoBatch
    /\ result = NoResult
    /\ calls = <<>>
    /\ lockAtStart = lockRaw
    /\ indexAtStart = index
    /\ lockWrites = 0
    /\ phases = {}
    /\ failedListings = {}
    /\ prev = NoPrev(nextFile)
    /\ site = NoSite
    /\ inflight = {}
    /\ done = <<>>
    /\ \E op \in {"category", "section", "article"} : listed = ListingTasks(op, <<1>>)
    /\ feed \in Feeds
    /\ page = 1
    /\ fetched = <<>>
    /\ requests = <<>>
    /\ ProcessStarted

NextPages ==
    \/ RequestPage
    \/ PageResponse

\* every request the listing awaits is answered or fails
SpecPages == InitPages /\ [][NextPages]_vars /\ WF_vars(NextPages)

(* ------------------------------------------------------------------ *)
(* The lock store on its own: RemoteContentLockStore                   *)
(* ------------------------------------------------------------------ *)

\* the Locks a caller may write
Locks == UNION {[S -> HashValues] : S \in SUBSET ArticleIds}

\* variant: the entries of the stored object that are not written stay
LockUpdate_merge ==
    /\ pc \in {"lock", "lock_updated", "lock_read"}
    /\ \E content_lock \in Locks :
          /\ lockRaw' = IF lockRaw.kind = "dict"
                        THEN JDict(Merge(lockRaw.data,
                                         RemoteContentLockStore_update(content_lock).data))
                        ELSE RemoteContentLockStore_update(content_lock)
          /\ file_hashes' = content_lock
    /\ pc' = "lock_updated"
    /\ UNCHANGED <<env, process, taskLevel, index, disk, storeFiles, storeAttached, nextFile,
                   status, err, harvestLocals, current_articles, remote_file_hashes,
                   differences, batch, result, history, phases>>

\* await store.update(content_lock), for any Lock; file_hashes keeps the
\* Lock that was written
LockUpdate ==
    /\ pc \in {"lock", "lock_updated", "lock_read"}
    /\ \E content_lock \in Locks :
          /\ lockRaw' = RemoteContentLockStore_update(content_lock)
          /\ file_hashes' = content_lock
    /\ pc' = "lock_updated"
    /\ UNCHANGED <<env, process, taskLevel, index, disk, storeFiles, storeAttached, nextFile,
                   status, err, harvestLocals, current_articles, remote_file_hashes,
                   differences, batch, result, history, phases>>

\* await store.get(): remote_file_hashes takes the Lock it returns, err the
\* exception it raises
LockGet ==
    /\ pc \in {"lock", "lock_updated", "lock_read"}
    /\ LET r == RemoteContentLockStore_get(lockRaw)
       IN  IF r.ok
           THEN /\ remote_file_hashes' = r.value
                /\ err' = None
           ELSE /\ err' = r.error
                /\ UNCHANGED remote_file_hashes
    /\ pc' = "lock_read"
    /\ UNCHANGED <<env, process, taskLevel, persistent, status, harvestLocals, current_articles,
                   file_hashes, differences, batch, result, history, phases>>

\* the keys and the values a stored object may have
StoredKeys == {"1", "2", "01", "x"}
StoredValues == {JStr(h) : h \in HashValues} \cup {JNum("7")}

\* what may be found under the key "lock:all"
StoredLocks ==
    LET objects == {JDict(d) : d \in UNION {[S -> StoredValues] : S \in SUBSET StoredKeys}}
    IN  {NoLock, JList, JText(NotJson), JText(JList)} \cup objects
           \cup {JText(o) : o \in {RemoteContentLockStore_update(l) : l \in Locks}}

\* a client of the store, with anything under the key
InitLockStore ==
    /\ remote = [i \in ArticleIds |-> Absent]
    /\ edits = 0
    /\ lockRaw \in StoredLocks
    /\ index = EmptyMap
    /\ disk = EmptyMap
    /\ storeFiles = EmptyMap
    /\ storeAttached = {}
    /\ nextFile = 1
    /\ pc = "lock"
    /\ tick = 0
    /\ status = "none"
    /\ err = None
    /\ categories = <<>>
    /\ sections = <<>>
    /\ current_articles = <<>>
    /\ file_hashes = EmptyMap
    /\ remote_file_hashes = EmptyMap
    /\ differences = NoDifferences
    /\ batch = NoBatch
    /\ result = NoResult
    /\ calls = <<>>
    /\ lockAtStart = lockRaw
    /\ indexAtStart = index
    /\ lockWrites = 0
    /\ phases = {}
    /\ failedListings = {}
    /\ prev = NoPrev(nextFile)
    /\ NoTasks
    /\ ProcessStarted

NextLockStore ==
    \/ LockUpdate
    \/ LockGet

SpecLockStore == InitLockStore /\ [][NextLockStore]_vars

(* ------------------------------------------------------------------ *)
(* The process around the pipeline: load_config, LocalContentLockStore *)
(* ------------------------------------------------------------------ *)

\* the pipeline has not run: remote, stores and sync() are as constructed
PipelineIdle ==
    /\ remote = [i \in ArticleIds |-> Absent]
    /\ edits = 0
    /\ lockRaw = NoLock
    /\ index = EmptyMap
    /\ disk = EmptyMap
    /\ storeFiles = EmptyMap
    /\ storeAttached = {}
    /\ nextFile = 1
    /\ pc = "idle"
    /\ tick = 0
    /\ status = "none"
    /\ err = None
    /\ categories = <<>>
    /\ sections = <<>>
    /\ current_articles = <<>>
    /\ file_hashes = EmptyMap
    /\ remote_file_hashes = EmptyMap
    /\ differences = NoDifferences
    /\ batch = NoBatch
    /\ result = NoResult
    /\ calls = <<>>
    /\ lockAtStart = lockRaw
    /\ indexAtStart = index
    /\ lockWrites = 0
    /\ phases = {}
    /\ failedListings = {}
    /\ prev = NoPrev(nextFile)
    /\ NoTasks

\* a call of load_config()
LoadConfig ==
    /\ load_calls < MaxLoads
    /\ LET r == load_config(config_cache, environ, load_calls + 1)
       IN  /\ config_cache' = r.cache
           /\ loaded' = r.result
           /\ getenv_calls' = getenv_calls + r.reads
    /\ load_calls' = load_calls + 1
    /\ UNCHANGED <<env, persistent, pc, status, err, harvestLocals, current_articles,
                   syncLocals, history, phases, taskLevel, environ, local_data, local_lock>>

\* load_config.cache_clear()
CacheClear ==
    /\ config_cache # <<>>
    /\ config_cache' = <<>>
    /\ UNCHANGED <<env, persistent, pc, status, err, harvestLocals, current_articles,
                   syncLocals, history, phases, taskLevel,
                   environ, loaded, getenv_calls, load_calls, local_data, local_lock>>

\* a variable of the environment is set, changed or unset
SetEnv ==
    /\ \E n \in EnvNames : \E v \in EnvValues[n] :
          /\ v # environ[n]
          /\ environ' = [environ EXCEPT ![n] = v]
    /\ UNCHANGED <<env, persistent, pc, status, err, harvestLocals, current_articles,
                   syncLocals, history, phases, taskLevel,
                   config_cache, loaded, getenv_calls, load_calls, local_data, local_lock>>

\* the process starts with any environment
InitConfig ==
    /\ PipelineIdle
    /\ environ \in Environs
    /\ config_cache = <<>>
    /\ loaded = NotCalled
    /\ getenv_calls = 0
    /\ load_calls = 0
    /\ local_data = EmptyMap
    /\ local_lock = None

\* LocalContentLockStore.update(content_lock): `data = content_lock` binds a
\* name local to the method, the module-level `data` is not assigned;
\* file_hashes keeps the Lock that was passed
LocalUpdate ==
    /\ pc \in {"idle", "local_updated", "local_read"}
    /\ \E content_lock \in HashMaps : file_hashes' = content_lock
    /\ local_data' = local_data
    /\ pc' = "local_updated"
    /\ UNCHANGED <<env, persistent, status, err, harvestLocals, current_articles,
                   remote_file_hashes, differences, batch, result, history, phases,
                   taskLevel, environ, config_cache, loaded, getenv_calls, load_calls,
                   local_lock>>

\* local_lock = local_store.get(): return data
LocalGet ==
    /\ pc \in {"idle", "local_updated", "local_read"}
    /\ local_lock' = local_data
    /\ pc' = "local_read"
    /\ UNCHANGED <<env, persistent, status, err, harvestLocals, current_articles,
                   syncLocals, history, phases, taskLevel,
                   environ, config_cache, loaded, getenv_calls, load_calls, local_data>>

\* the module diffcheck.local has been imported: data = {}
InitLocalStore ==
    /\ PipelineIdle
    /\ ProcessStarted

NextLocalStore ==
    \/ LocalUpdate
    \/ LocalGet

SpecLocalStore == InitLocalStore /\ [][NextLocalStore]_vars

NextConfig ==
    \/ LoadConfig
    \/ CacheClear
    \/ SetEnv

SpecConfig == InitConfig /\ [][NextConfig]_vars

(* ------------------------------------------------------------------ *)
(* Vocabulary of the properties                                        *)
(* ------------------------------------------------------------------ *)

\* the persisted Lock as a reader gets it
Lock == RemoteContentLockStore_get(lockRaw)

LockKeys == IF Lock.ok THEN DOMAIN Lock.value ELSE {}

IndexKeys == {int(k) : k \in DOMAIN index}

\* the last sync() returned normally, i.e. committed its lock
TickCommitted == pc = "idle" /\ status = "completed"

\* the last sync() ended with an exception
TickFailed == pc = "idle" /\ status = "failed"

CallsOf(op, id) == {k \in DOMAIN calls : calls[k].op = op /\ calls[k].article = id}

\* article ids an upload of this tick failed for
FailedUploadIds == {calls[k].article : k \in {j \in DOMAIN calls : calls[j].op = "upload" /\ ~calls[j].ok}}

(* ------------------------------------------------------------------ *)
(* Properties                                                          *)
(* ------------------------------------------------------------------ *)

\* C1: after every sync() that completes its lock commit, every article id
\* that is a key of the persisted Lock is also a key of the persisted
\* ArtifactIndex.
C1_LockKeysAreIndexed ==
    TickCommitted => \A id \in LockKeys : ToString(id) \in DOMAIN index

\* C2: an article whose upload failed in a create or replace batch of a tick
\* is left out of the ArtifactIndex write of that tick and of the Lock
\* committed at its end, so the committed Lock does not hold its current hash.
C2_FailedUploadLeftOut ==
    TickCommitted =>
        \A id \in FailedUploadIds :
            /\ \/ ToString(id) \notin DOMAIN index
               \/ /\ ToString(id) \in DOMAIN indexAtStart
                  /\ index[ToString(id)] = indexAtStart[ToString(id)]
            /\ ~(id \in LockKeys /\ Lock.value[id] = file_hashes[id])

\* C3: an article the diff classifies as updated whose id has no
\* ArtifactIndex entry is treated as new: exactly one upload is issued for
\* it, no delete, and when that upload succeeds the ArtifactIndex afterwards
\* maps its id to the file id created for it.
C3_UpdatedWithoutIndexEntryIsCreated ==
    TickCommitted =>
        \A id \in differences.updated_keys :
            ToString(id) \notin DOMAIN indexAtStart =>
                /\ Cardinality(CallsOf("upload", id)) = 1
                /\ CallsOf("delete", id) = {}
                /\ \A k \in CallsOf("upload", id) :
                      calls[k].ok =>
                        /\ ToString(id) \in DOMAIN index
                        /\ index[ToString(id)] \in DOMAIN storeFiles

\* C4: within one sync() the Lock is written at most once and only as the
\* last step; a sync() that ends with an exception before its commit leaves
\* the persisted Lock as it was when the tick started.
C4_LockWrittenOnceAndLast ==
    /\ lockWrites <= 1
    /\ pc # "idle" => lockWrites = 0 /\ lockRaw = lockAtStart
    /\ TickFailed => lockWrites = 0 /\ lockRaw = lockAtStart

\* a tick that dispatched to the artifact store and was aborted at its commit
\* step, with a Lock that the commit would have changed
C4_Witness ==
    /\ TickFailed
    /\ "update" \in phases
    /\ calls # <<>>
    /\ Lock.ok
    /\ Lock.value # file_hashes
    /\ lockRaw = lockAtStart

\* C5: in every tick the harvest listings are over before any article is
\* hashed, every article is hashed before any upload or delete goes to the
\* artifact store, and the create and replace dispatches have returned before
\* the Lock is written.
C5_PhaseOrder ==
    /\ (pc = "hash" \/ "hash" \in phases) => "harvest" \in phases /\ failedListings = {}
    /\ (calls # <<>> \/ pc \in {"create_save", "update_delete", "update_upload", "update_save"})
          => "hash" \in phases /\ DOMAIN file_hashes = {current_articles[n].id : n \in DOMAIN current_articles}
    /\ lockWrites > 0 => {"create", "update"} \subseteq phases /\ pc = "idle"

\* a committed tick that deleted an old artifact and uploaded files
C5_Witness ==
    /\ TickCommitted
    /\ \E k \in DOMAIN calls : calls[k].op = "delete"
    /\ \E k \in DOMAIN calls : calls[k].op = "upload"
    /\ lockWrites = 1

\* C6: of two consecutive completed ticks that harvested the same articles,
\* the second issues no upload and no delete, and commits the Lock the first
\* one committed.
C6_SecondTickIdempotent ==
    (TickCommitted /\ prev.same) => calls = <<>> /\ lockRaw = lockAtStart

\* a second completed tick over the same two articles, the first of which
\* uploaded them
C6_Witness ==
    /\ TickCommitted
    /\ prev.same
    /\ Len(current_articles) = 2
    /\ DOMAIN index = {"1", "2"}
    /\ lockWrites = 1

\* the harvested articles whose hash equals the one the previous Lock holds
UnchangedIds ==
    {id \in DOMAIN file_hashes :
        id \in DOMAIN remote_file_hashes /\ file_hashes[id] = remote_file_hashes[id]}

\* C7: in any tick no upload and no delete is issued for a harvested article
\* whose hash equals the hash the previous Lock holds for its id.
C7_UnchangedNotDispatched ==
    "diff" \in phases =>
        \A id \in UnchangedIds : CallsOf("upload", id) = {} /\ CallsOf("delete", id) = {}

\* a committed tick with an unchanged article next to a created one
C7_Witness ==
    /\ TickCommitted
    /\ UnchangedIds # {}
    /\ differences.new_keys # {}
    /\ \E k \in DOMAIN calls : calls[k].op = "upload" /\ calls[k].ok

\* C8: when a listing of the harvest fails, get_articles() raises the error
\* of a failed listing and returns nothing; a harvest that is returned holds
\* every article of the remote.
C8_NoPartialHarvest ==
    /\ failedListings # {} =>
          TickFailed /\ err \in failedListings /\ "harvest" \notin phases
    /\ (pc # "idle" /\ "harvest" \in phases) =>
          {current_articles[n].id : n \in DOMAIN current_articles}
              = {i \in ArticleIds : remote[i] # Absent}

\* the article listing of section 1 failed while section 2 had an article
C8_Witness ==
    /\ TickFailed
    /\ failedListings = {ListError("article", 1)}
    /\ err = ListError("article", 1)
    /\ remote[2] # Absent

\* C9: a sync() that fails while harvesting, hashing or reading the Lock has
\* issued no call to the artifact store and leaves the persisted Lock and
\* ArtifactIndex unchanged.
C9_EarlyFailureMutatesNothing ==
    (TickFailed /\ "getlock" \notin phases) =>
        calls = <<>> /\ lockRaw = lockAtStart /\ index = indexAtStart

\* a tick that failed on an empty body with a Lock and an index in place
C9_Witness ==
    /\ TickFailed
    /\ err = "ValueError: article has no body content"
    /\ "save" \in phases
    /\ LockKeys # {}
    /\ index # EmptyMap

\* the hashes of the non-empty bodies an article may have
BodyHashes == {sha256(md(b)) : b \in {c \in HtmlBodies : md(c) # ""}}

\* C10: hashing fails for an article with an empty body, and every value of
\* the persisted Lock is the hash of a non-empty body.
C10_NoEmptyBodyInLock ==
    /\ "hash" \in phases => \A n \in DOMAIN current_articles : current_articles[n].body # ""
    /\ LET lock == Lock
       IN  lock.ok => \A id \in DOMAIN lock.value : lock.value[id] \in BodyHashes

\* hashing refused an article with an empty body; the Lock has entries
C10_Witness ==
    /\ TickFailed
    /\ \E n \in DOMAIN current_articles : current_articles[n].body = ""
    /\ "save" \in phases /\ "hash" \notin phases
    /\ LockKeys # {}

\* C11: for the article ids the diff classifies as deleted, sync() issues no
\* delete to the artifact store and takes no entry out of the ArtifactIndex.
C11_DeletedIsRecordOnly ==
    "diff" \in phases =>
        \A id \in differences.deleted_keys :
            /\ CallsOf("delete", id) = {}
            /\ ToString(id) \in DOMAIN indexAtStart =>
                  /\ ToString(id) \in DOMAIN index
                  /\ index[ToString(id)] = indexAtStart[ToString(id)]
                  /\ \A k \in DOMAIN calls :
                        calls[k].op = "delete" => calls[k].arg # indexAtStart[ToString(id)]

\* a committed tick that wrote the index while an indexed article had
\* disappeared from the remote
C11_Witness ==
    /\ TickCommitted
    /\ \E id \in differences.deleted_keys : ToString(id) \in DOMAIN indexAtStart
    /\ index # indexAtStart

\* every upload of this tick succeeded
AllUploadsOk == \A k \in DOMAIN calls : calls[k].op = "upload" => calls[k].ok

\* the map from each harvested article id to the hash of its body
HarvestHashes ==
    [id \in {current_articles[n].id : n \in DOMAIN current_articles} |->
        sha256((CHOOSE a \in Range(current_articles) : a.id = id).body)]

\* C12: after a tick in which every upload succeeds, the committed Lock is
\* the map from each harvested article id to the hash of its body (ids absent
\* from the harvest are gone), and when the tick started from an empty Lock
\* and an empty ArtifactIndex every harvested id has an ArtifactIndex entry.
C12_CommittedLockIsHarvest ==
    (TickCommitted /\ AllUploadsOk) =>
        /\ Lock.ok
        /\ Lock.value = HarvestHashes
        /\ (lockAtStart = NoLock /\ indexAtStart = EmptyMap) =>
              \A id \in DOMAIN HarvestHashes : ToString(id) \in DOMAIN index

\* a committed tick with successful uploads that dropped an id from the Lock
C12_Witness ==
    /\ TickCommitted
    /\ AllUploadsOk
    /\ calls # <<>>
    /\ differences.deleted_keys # {}
    /\ LockKeys # {}

\* C13: when the harvest returns no articles, the diff has no new and no
\* updated ids, its deleted ids are the keys of the previous Lock, no upload
\* is issued, and the Lock is overwritten with the empty map.
C13_EmptyHarvest ==
    ("diff" \in phases /\ current_articles = <<>>) =>
        /\ differences.new_keys = {}
        /\ differences.updated_keys = {}
        /\ differences.deleted_keys = DOMAIN remote_file_hashes
        /\ calls = <<>>
        /\ TickCommitted => lockRaw = JDict(EmptyMap)

\* a committed tick over an empty harvest that found a Lock with entries
C13_Witness ==
    /\ TickCommitted
    /\ current_articles = <<>>
    /\ differences.deleted_keys # {}
    /\ lockRaw = JDict(EmptyMap)

\* C14: get_dict_differences(previous, current) returns as new the keys of
\* current that previous lacks, as deleted the keys of previous that current
\* lacks, and as updated the keys of both whose values differ; two identical
\* maps (two empty maps included) give three empty sets.
C14_DiffSets ==
    "diff" \in phases =>
        /\ \A k \in DiffKeys :
              /\ k \in differences.new_keys <=>
                    (k \in DOMAIN file_hashes /\ k \notin DOMAIN remote_file_hashes)
              /\ k \in differences.deleted_keys <=>
                    (k \in DOMAIN remote_file_hashes /\ k \notin DOMAIN file_hashes)
              /\ k \in differences.updated_keys <=>
                    /\ k \in DOMAIN file_hashes
                    /\ k \in DOMAIN remote_file_hashes
                    /\ file_hashes[k] # remote_file_hashes[k]
        /\ differences.new_keys \cup differences.deleted_keys
              \cup differences.updated_keys \subseteq DiffKeys
        /\ file_hashes = remote_file_hashes => differences = NoDifferences

\* the differ returned three non-empty sets
C14_Witness ==
    /\ "diff" \in phases
    /\ differences.new_keys # {}
    /\ differences.deleted_keys # {}
    /\ differences.updated_keys # {}

\* C15: new, updated, deleted and unchanged are pairwise disjoint, their union
\* is the keys of previous together with the keys of current, new, updated and
\* unchanged lie in the keys of current and deleted in the keys of previous.
C15_DiffPartition ==
    "diff" \in phases =>
        LET new == differences.new_keys
            updated == differences.updated_keys
            deleted == differences.deleted_keys
            unchanged == UnchangedIds
        IN  /\ new \cap updated = {}
            /\ new \cap deleted = {}
            /\ new \cap unchanged = {}
            /\ updated \cap deleted = {}
            /\ updated \cap unchanged = {}
            /\ deleted \cap unchanged = {}
            /\ new \cup updated \cup deleted \cup unchanged
                  = DOMAIN remote_file_hashes \cup DOMAIN file_hashes
            /\ new \cup updated \cup unchanged \subseteq DOMAIN file_hashes
            /\ deleted \subseteq DOMAIN remote_file_hashes

\* the differ ran on two maps that have a key of each of the four classes
C15_Witness ==
    /\ "diff" \in phases
    /\ differences.new_keys # {}
    /\ differences.deleted_keys # {}
    /\ differences.updated_keys # {}
    /\ UnchangedIds # {}
    /\ Cardinality(DOMAIN remote_file_hashes \cup DOMAIN file_hashes) = MaxDiffKeys

\* upload_files_batch has just returned to one of the two dispatch phases
BatchReturned == pc \in {"create_save", "update_save"}

\* the file_paths the batch that has just returned was called with
BatchPaths ==
    IF pc = "create_save"
    THEN Pick([n \in DOMAIN current_articles |-> current_articles[n].file_path],
              create_selection(current_articles, differences.new_keys))
    ELSE batch.paths

\* the calls the batch that has just returned made: in the update phase they
\* follow the deletes of update_files_batch
BatchLog ==
    LET deletes == {k \in DOMAIN calls : calls[k].op = "delete"}
        first == IF pc = "create_save" \/ deletes = {} THEN 1 ELSE Max(deletes) + 1
    IN  SubSeq(calls, first, Len(calls))

\* the positions of a sequence that hold the value v
Occurrences(seq, v) == {k \in DOMAIN seq : seq[k] = v}

\* C16: upload_files_batch does not stop at a file that fails: for distinct
\* paths and any pattern of failures every input path is either a key of
\* successful_uploads or once in failed_uploads, never both, and the upload
\* of every other file is still attempted.
C16_EveryPathReported ==
    BatchReturned =>
        /\ \A k \in DOMAIN BatchPaths :
              LET path == BatchPaths[k]
                  failed == Occurrences(result.failed_uploads, FailedEntry(path))
              IN  /\ \/ path \in DOMAIN result.successful_uploads /\ failed = {}
                     \/ path \notin DOMAIN result.successful_uploads /\ Cardinality(failed) = 1
                  /\ path \in DOMAIN disk =>
                        \E j \in DOMAIN BatchLog :
                            BatchLog[j].op = "upload" /\ BatchLog[j].arg = path
        /\ Cardinality(DOMAIN result.successful_uploads) + Len(result.failed_uploads)
              = Len(BatchPaths)

\* a batch of three files returned with the first file failed and a later
\* one uploaded
C16_Witness ==
    /\ BatchReturned
    /\ Len(BatchPaths) = MaxBatch
    /\ BatchPaths[1] \notin DOMAIN result.successful_uploads
    /\ BatchPaths[MaxBatch] \in DOMAIN result.successful_uploads

C18_DeleteFailureSwallowed ==
    (\E k \in DOMAIN calls : calls[k].op = "delete" /\ ~calls[k].ok) =>
        /\ status # "failed"
        /\ pc \in {"update_upload", "update_save", "commit"}
        /\ pc = "update_save" =>
              /\ \A k \in DOMAIN batch.paths :
                    batch.paths[k] \in DOMAIN disk =>
                        \E j \in DOMAIN BatchLog :
                            BatchLog[j].op = "upload" /\ BatchLog[j].arg = batch.paths[k]
              /\ \A j \in DOMAIN result.failed_uploads :
                    \E k \in DOMAIN batch.paths :
                        /\ result.failed_uploads[j] = FailedEntry(batch.paths[k])
                        /\ batch.paths[k] \notin DOMAIN result.successful_uploads

\* update_files_batch returned without a failed upload after every one of
\* its deletes had failed
C18_Witness ==
    /\ pc = "update_save"
    /\ \A k \in DOMAIN calls : calls[k].op = "delete" => ~calls[k].ok
    /\ Len(batch.old_ids) >= 2
    /\ result.failed_uploads = <<>>
    /\ Cardinality(DOMAIN result.successful_uploads) = Len(batch.paths)

\* C19: in update_files_batch every delete is over before the first upload
\* starts.
C19_DeletesBeforeUploads ==
    /\ \A i, j \in DOMAIN calls :
          (/\ calls[i].op = "delete"
           /\ calls[j].op = "upload"
           /\ calls[j].article \in differences.updated_keys) => i < j
    /\ (\E j \in DOMAIN calls :
           calls[j].op = "upload" /\ calls[j].article \in differences.updated_keys) =>
          \A k \in DOMAIN batch.old_ids :
              \E i \in DOMAIN calls : calls[i].op = "delete" /\ calls[i].arg = batch.old_ids[k]

\* update_files_batch returned after two deletes and two uploads
C19_Witness ==
    /\ pc = "update_save"
    /\ Cardinality({k \in DOMAIN calls : calls[k].op = "delete"}) >= 2
    /\ Cardinality({k \in DOMAIN calls :
                       calls[k].op = "upload" /\ calls[k].article \in differences.updated_keys}) >= 2

\* the updated articles of this tick that had an ArtifactIndex entry and
\* whose upload succeeded
ReplacedIds ==
    {id \in differences.updated_keys :
        /\ ToString(id) \in DOMAIN indexAtStart
        /\ \E k \in CallsOf("upload", id) : calls[k].ok}

\* the body of the harvested article id
BodyOf(id) == (CHOOSE a \in Range(current_articles) : a.id = id).body

\* the ArtifactIndex maps id to a file created in this tick that holds the
\* harvested body, and the committed Lock maps id to the hash of that body
ReplacedAndLocked(id) ==
    /\ ToString(id) \in DOMAIN index
    /\ index[ToString(id)] # indexAtStart[ToString(id)]
    /\ index[ToString(id)] \in DOMAIN storeFiles
    /\ storeFiles[index[ToString(id)]] = BodyOf(id)
    /\ index[ToString(id)] \in storeAttached
    /\ Lock.ok
    /\ id \in LockKeys
    /\ Lock.value[id] = sha256(BodyOf(id))

PrevCrashedAfterDispatch == ~prev.completed /\ prev.dispatched # {}

\* C21: a tick that crashes after its create/replace dispatch and before the
\* Lock commit leaves the Lock unchanged; the next tick, harvesting the same
\* articles, uploads every article the crashed tick had dispatched again,
\* and no file the crashed tick created is left in the artifact store.
C21_CrashedTickCleanedUp ==
    /\ (TickFailed /\ UploadedIn(calls, FALSE) # {}) => lockRaw = lockAtStart
    /\ (TickCommitted /\ PrevCrashedAfterDispatch /\ prev.same_harvest) =>
          /\ \A id \in prev.dispatched : CallsOf("upload", id) # {}
          /\ \A f \in prev.created : f \notin DOMAIN storeFiles

\* C23: a tick in which the write of new file ids to the ArtifactIndex
\* fails ends without writing the Lock, and the next tick, harvesting the
\* same articles, issues an upload for every article that was new or updated
\* in the failed tick.
C23_IndexWriteFailureRedispatched ==
    /\ (TickFailed /\ DOMAIN result.successful_uploads # {}) =>
          lockWrites = 0 /\ lockRaw = lockAtStart
    /\ (TickCommitted /\ prev.index_failed /\ prev.same_harvest) =>
          \A id \in prev.keys : CallsOf("upload", id) # {}

\* C22: a per-file upload failure does not end the tick: once a batch has
\* reported a failed upload, sync() runs the rest of the dispatch and
\* reaches the Lock commit.
C22_UploadFailureReachesCommit ==
    (result.failed_uploads # <<>>) ~>
        (TickCommitted /\ lockWrites = 1 /\ {"create", "update"} \subseteq phases)

\* a tick committed the Lock after an upload of its create batch and an
\* upload of its update batch had failed
C22_Witness ==
    /\ TickCommitted
    /\ lockWrites = 1
    /\ \E k \in DOMAIN calls :
          calls[k].op = "upload" /\ ~calls[k].ok /\ calls[k].article \in differences.new_keys
    /\ \E k \in DOMAIN calls :
          calls[k].op = "upload" /\ ~calls[k].ok /\ calls[k].article \in differences.updated_keys

\* the article ids an upload has succeeded for, in this or an earlier tick
EverUploaded == prev.uploaded \cup UploadedIn(calls, TRUE)

\* the article ids the ArtifactIndex has an entry for
IndexedIds == {id \in ArticleIds : ToString(id) \in DOMAIN index}

ListingsInFlight == {t \in inflight : t.op \in {"category", "section", "article"}}

\* C25: the number of harvest listings in flight at the same time never
\* exceeds a fixed bound, whatever the number of categories and sections;
\* the bound stands below the number of categories a remote may have, as the
\* default of 16 stands below the sizes of a remote
C25_HarvestListingsBounded == Cardinality(ListingsInFlight) < MaxCats

\* the ids the listings `op` were issued for, in the order of issue
ListedFor(op) ==
    LET sub == SelectSeq(listed, LAMBDA t : t.op = op)
    IN  [n \in DOMAIN sub |-> sub[n].arg]

\* the sections of the remote's categories, category after category
SiteSections == Flatten([n \in DOMAIN site.categories |-> site.sections[site.categories[n]]])

\* the articles of the remote's sections, section after section, as
\* get_articles returns them
SiteArticles ==
    LET found == Flatten([n \in DOMAIN SiteSections |-> ArticlesOf(remote, SiteSections[n])])
    IN  [n \in DOMAIN found |-> convert_body_to_markdown(found[n])]

\* C27: get_articles() lists the categories exactly once; it issues the
\* section listings only after the category listing has returned, one per
\* category; it issues the article listings only after every section listing
\* has returned, one per section; with no categories it issues neither; and
\* what it returns is the concatenation of the article listings
C27_HarvestOrder ==
    /\ Len(ListedFor("category")) = (IF pc = "categories" THEN 0 ELSE 1)
    /\ listed = SelectSeq(listed, LAMBDA t : t.op = "category")
                   \o SelectSeq(listed, LAMBDA t : t.op = "section")
                   \o SelectSeq(listed, LAMBDA t : t.op = "article")
    /\ ListedFor("section") # <<>> =>
          Returned("category") /\ ListedFor("section") = site.categories
    /\ pc \in {Waiting("section"), "articles", Waiting("article"), "save"} =>
          ListedFor("section") = site.categories
    /\ ListedFor("article") # <<>> =>
          Returned("section") /\ ListedFor("article") = SiteSections
    /\ pc \in {Waiting("article"), "save"} => ListedFor("article") = SiteSections
    /\ site.categories = <<>> => Len(listed) <= 1
    /\ pc = "save" => inflight = {} /\ current_articles = SiteArticles

\* a harvest of two categories in the remote's order, with two sections that
\* hold an article each, has returned
C27_Witness ==
    /\ pc = "save"
    /\ site.categories = <<2, 1>>
    /\ Len(ListedFor("section")) = 2
    /\ Len(ListedFor("article")) >= 3
    /\ Len(current_articles) = 2
    /\ current_articles[1].id = 2

\* the uploads of the running batch that are in flight
UploadsInFlight == {t \in inflight : t.op = "upload"}

\* C26: the number of per-file uploads in flight at the same time inside one
\* batch never exceeds a fixed bound, whatever the size of the batch; the
\* bound stands below the largest batch, as the default of 20 stands below
\* the sizes of a batch
C26_BatchUploadsBounded == Cardinality(UploadsInFlight) < MaxBatch

\* the page requests of the listing that are in flight
PagesInFlight == {t \in inflight : t.op = "page"}

\* in every state of a listing: the pages requested so far are 1, 2, 3, ...
\* in this order; at most one request is in flight, and it is the last one
\* made; no page was requested after a response without next_page; and a
\* listing that has returned has ended on such a response and returns the
\* items of the pages it fetched, in page order
PagesInOrder ==
    /\ requests = [n \in 1..Len(requests) |-> n]
    /\ Cardinality(PagesInFlight) <= 1
    /\ \A t \in PagesInFlight :
          pc = "page_wait" /\ t.arg = Len(requests) /\ t.n = Len(requests)
    /\ \A n \in 1..(Len(requests) - 1) : Served(n).next_page # None
    /\ pc = "page_return" =>
          /\ Served(Len(requests)).next_page = None
          /\ fetched = Flatten([n \in 1..Len(requests) |-> Served(n).items])

\* the remote serves a page without next_page
RemoteEnds == \E n \in DOMAIN feed : feed[n].next_page = None

ObjectStored == lockRaw.kind # "none" /\ Decoded(lockRaw).kind = "dict"

StoredObject == Decoded(lockRaw).data

\* an entry of the stored object has a key that is not an integer or a value
\* that is not a string
BadEntryStored ==
    \E k \in DOMAIN StoredObject : k \notin IntStrings \/ StoredObject[k].t # "str"

\* C29 as stated: a read converts every stored key to an integer and keeps
\* every string value; if any key is not an integer or any value is not a
\* string, it fails with an error and returns no Lock
C29_ReadKeepsEveryValue ==
    [][(pc' = "lock_read" /\ ObjectStored) =>
          IF BadEntryStored
          THEN err' # None /\ remote_file_hashes' = remote_file_hashes
          ELSE /\ err' = None
               /\ DOMAIN remote_file_hashes' = {int(k) : k \in DOMAIN StoredObject}
               /\ \A k \in DOMAIN StoredObject :
                     remote_file_hashes'[int(k)] = StoredObject[k].v]_vars

\* C29, amended: a read of an object with a bad entry fails with an error and
\* returns no Lock; any other read returns a Lock whose keys are the integers
\* of the stored keys and whose value at a key is the string stored under a
\* key that is this integer
C29_ReadConvertsOrFails ==
    [][(pc' = "lock_read" /\ ObjectStored) =>
          IF BadEntryStored
          THEN err' # None /\ remote_file_hashes' = remote_file_hashes
          ELSE /\ err' = None
               /\ DOMAIN remote_file_hashes' = {int(k) : k \in DOMAIN StoredObject}
               /\ \A i \in DOMAIN remote_file_hashes' :
                     \E k \in DOMAIN StoredObject :
                        int(k) = i /\ remote_file_hashes'[i] = StoredObject[k].v
               /\ (\A k, l \in DOMAIN StoredObject : int(k) = int(l) => k = l) =>
                     \A k \in DOMAIN StoredObject :
                        remote_file_hashes'[int(k)] = StoredObject[k].v]_vars

\* a read has failed on an object that holds a valid entry next to a bad one,
\* and nothing was returned
C29_Witness ==
    /\ pc = "lock_read"
    /\ err # None
    /\ remote_file_hashes = EmptyMap
    /\ ObjectStored
    /\ {"1", "x"} \subseteq DOMAIN StoredObject
    /\ StoredObject["1"].t = "str"

\* C30: update(L) followed by get() returns exactly L, whatever was stored
\* before, and get() returns the empty map when no Lock was ever written
C30_RoundTrip ==
    [][pc' = "lock_read" =>
          /\ pc = "lock_updated" => err' = None /\ remote_file_hashes' = file_hashes
          /\ lockRaw = NoLock => err' = None /\ remote_file_hashes' = EmptyMap]_vars

\* a Lock without the key 2 was written over an object that had it, and was
\* read back
C30_Witness ==
    /\ pc = "lock_read"
    /\ err = None
    /\ lockAtStart.kind = "dict"
    /\ "2" \in DOMAIN lockAtStart.data
    /\ DOMAIN file_hashes = {1}
    /\ lockRaw = RemoteContentLockStore_update(file_hashes)
    /\ remote_file_hashes = file_hashes

\* C31: load_config is cached. A call made while a settings object is cached
\* returns that very object and reads no variable of the environment; a call
\* made with nothing cached reads the environment, and then either validates,
\* returns a new settings object and caches it, or raises and leaves the
\* cache empty, so that the next call reads the environment again
C31_LoadConfigCached ==
    [][load_calls' = load_calls + 1 =>
          IF config_cache # <<>>
          THEN /\ loaded' = config_cache[1]
               /\ getenv_calls' = getenv_calls
               /\ config_cache' = config_cache
          ELSE /\ getenv_calls' = getenv_calls + Cardinality(EnvNames)
               /\ IF Validates(environ)
                  THEN /\ loaded'.ok
                       /\ loaded'.value.object = load_calls'
                       /\ loaded'.value.redis_host = environ.REDIS_HOST
                       /\ config_cache' = <<loaded'>>
                  ELSE /\ loaded' = Raises("ValidationError")
                       /\ config_cache' = <<>>]_vars

\* the third call returns the object of the first although the environment
\* no longer validates, and only the first call has read the environment
C31_Witness ==
    /\ load_calls = 3
    /\ loaded.ok
    /\ loaded.value.object = 1
    /\ ~Validates(environ)
    /\ getenv_calls = Cardinality(EnvNames)

\* C38: for every Lock L, LocalContentLockStore.update(L) followed by
\* LocalContentLockStore.get() returns L
C38_LocalRoundTrip ==
    [][(pc = "local_updated" /\ pc' = "local_read") => local_lock' = file_hashes]_vars

\* the keys of article_openai_id_map in _save_article_openai_file_ids
WrittenKeys(articles, successful_uploads) ==
    {ToString(articles[n].id) :
        n \in {m \in DOMAIN articles : articles[m].file_path \in DOMAIN successful_uploads}}

\* the positions of the hset calls on the hash in a call log
IndexWrites(log) == {k \in DOMAIN log : log[k].op = "hset"}

\* C32: a step of _save_article_openai_file_ids leaves the entry of every
\* article id outside the written mapping as it was and adds no key outside
\* that mapping; with no successful upload it leaves the hash as it was and
\* issues no hset.
C32_IndexWriteFrame ==
    [][(pc \in {"create_save", "update_save"} /\ pc' # pc) =>
          LET written == WrittenKeys(current_articles, result.successful_uploads)
          IN  /\ \A k \in (DOMAIN index) \ written :
                    k \in DOMAIN index' /\ index'[k] = index[k]
              /\ DOMAIN index' = (DOMAIN index) \cup written
              /\ IF DOMAIN result.successful_uploads = {}
                 THEN index' = index /\ calls' = calls
                 ELSE /\ written # {}
                      /\ Len(calls') = Len(calls) + 1
                      /\ calls'[Len(calls')].op = "hset"]_vars

\* the create phase wrote the entry of a new article with one hset, the
\* entry of an updated article is the one the tick started with, and the
\* update phase that had no successful upload issued no second hset
C32_Witness ==
    /\ "update" \in phases
    /\ Cardinality(IndexWrites(calls)) = 1
    /\ DOMAIN index # DOMAIN indexAtStart
    /\ \E k \in DOMAIN indexAtStart : index[k] = indexAtStart[k]
    /\ \E k \in DOMAIN calls : calls[k].op = "delete"

\* the paths of the batch that has just returned whose staged file does not
\* exist
MissingPaths == {BatchPaths[k] : k \in DOMAIN BatchPaths} \ DOMAIN disk

\* C39: a batch given a path whose staged file does not exist issues no call
\* to the artifact store for that path, reports the path once in
\* failed_uploads and not in successful_uploads, and returns to sync()
\* without an exception.
C39_MissingFileFails ==
    BatchReturned =>
        \A path \in MissingPaths :
            /\ \A j \in DOMAIN BatchLog : BatchLog[j].arg # path
            /\ path \notin DOMAIN result.successful_uploads
            /\ Cardinality(Occurrences(result.failed_uploads, FailedEntry(path))) = 1
            /\ status = "running"
            /\ err = None

\* a batch returned that was given a path with no staged file next to a
\* staged file it uploaded
C39_Witness ==
    /\ BatchReturned
    /\ MissingPaths # {}
    /\ DOMAIN result.successful_uploads # {}

\* the positions in `requests` of the calls `op` of path number n that
\* ended as `ok`
FileCalls(op, n, ok) == {k \in DOMAIN requests : requests[k] = FileCall(op, n, ok)}

\* C37: when a batch has returned, a path is a key of successful_uploads
\* only if its push of the bytes returned and its attach to the vector store
\* returned after it, and the value is the file id of that push; a path whose
\* attach raised after its push had returned is in failed_uploads and not in
\* successful_uploads.
C37_SuccessNeedsPushAndAttach ==
    pc = "create_save" =>
        \A n \in DOMAIN BatchPaths :
            LET path == BatchPaths[n]
            IN  /\ path \in DOMAIN result.successful_uploads =>
                      /\ \E i \in FileCalls("push", n, TRUE) :
                            \E j \in FileCalls("attach", n, TRUE) : i < j
                      /\ FileCalls("push", n, FALSE) = {}
                      /\ FileCalls("attach", n, FALSE) = {}
                      /\ result.successful_uploads[path] \in DOMAIN storeFiles
                      /\ result.successful_uploads[path] \in storeAttached
                /\ (FileCalls("push", n, TRUE) # {} /\ FileCalls("attach", n, FALSE) # {}) =>
                      /\ path \notin DOMAIN result.successful_uploads
                      /\ Occurrences(result.failed_uploads, FailedEntry(path)) # {}

\* a batch returned in which the attach of one path raised after its push
\* and another path was pushed and attached
C37_Witness ==
    /\ pc = "create_save"
    /\ \E n \in DOMAIN BatchPaths :
          FileCalls("push", n, TRUE) # {} /\ FileCalls("attach", n, FALSE) # {}
    /\ DOMAIN result.successful_uploads # {}

\* the file ids the ArtifactIndex holds as values
IndexedFiles == {index[k] : k \in DOMAIN index}

\* C34: in every state between two ticks every file id the ArtifactIndex
\* holds as a value is the id of a file of the artifact store, also after a
\* tick that deleted the old file of an updated article and failed to upload
\* the new one.
C34_IndexedArtifactsExist ==
    TickCommitted => IndexedFiles \subseteq DOMAIN storeFiles

\* files of the artifact store known to hold a body of article id: the one
\* the ArtifactIndex named when the tick started and the one it names now
ArtifactsOf(id) ==
    {f \in DOMAIN storeFiles :
        \/ ToString(id) \in DOMAIN indexAtStart /\ indexAtStart[ToString(id)] = f
        \/ ToString(id) \in DOMAIN index /\ index[ToString(id)] = f}

\* C35: at the end of every completed tick the artifact store holds at most
\* one file per article id, also after a replace whose delete of the old file
\* failed.
C35_OneArtifactPerArticle ==
    TickCommitted => \A id \in ArticleIds : Cardinality(ArtifactsOf(id)) <= 1

\* the files of the artifact store created since the tick started, for a
\* tick that started with the files of the ArtifactIndex in the store
CreatedFiles == (DOMAIN storeFiles) \ Range(indexAtStart)

\* the article ids the ArtifactIndex maps to the file f
IndexedAs(f) == {k \in DOMAIN index : index[k] = f}

\* C36: after the create phase and after the replace phase every file the
\* tick has created in the artifact store is the ArtifactIndex value of
\* exactly one article id, also when two articles share a staged file path.
C36_CreatedIndexedOnce ==
    pc \in {"update", "commit"} => \A f \in CreatedFiles : Cardinality(IndexedAs(f)) = 1

\* the tick found no article to create or to replace: with the remote as it
\* is, every later tick does the same and issues no upload
Quiescent == differences.new_keys = {} /\ differences.updated_keys = {}

\* the ArtifactIndex maps the article to a file of the artifact store that
\* holds its harvested body
Converged(article) ==
    /\ ToString(article.id) \in DOMAIN index
    /\ index[ToString(article.id)] \in DOMAIN storeFiles
    /\ storeFiles[index[ToString(article.id)]] = article.body

\* C33: with the remote unchanged since the tick before, a completed tick
\* that finds nothing left to upload has reached the end of the retries, so
\* every article of the remote has an ArtifactIndex entry whose file was
\* uploaded from its current body, also when an upload failed in an earlier
\* tick.
C33_ConvergedWhenQuiescent ==
    (TickCommitted /\ prev.same /\ Quiescent) =>
        \A n \in DOMAIN current_articles : Converged(current_articles[n])

====
